---- MODULE Spec2Model ----
(***************************************************************************)
(* Workflow execution engine and approval router of the document           *)
(* processing backend (documents_api/services/workflow_service.py and the  *)
(* approval / execution endpoints of documents_api/views.py).              *)
(*                                                                         *)
(* The persisted entities (Document, WorkflowExecution, DocumentApproval)  *)
(* are the state.  A request handler is one action, except where the code  *)
(* itself hands work to another thread or re-reads the database after an   *)
(* await: a background thread started by a view is an action of its own,   *)
(* and handle_approval_response is split at the point where it has saved   *)
(* the approval and goes on to load the execution.                         *)
(***************************************************************************)
EXTENDS Integers, Sequences, FiniteSets, TLC

VARIABLES catalogue, docs, execs, approvals, inflight, last,
          rules, samples, runs, report

\* the workflow engine's rows and requests
wvars == <<catalogue, docs, execs, approvals, inflight, last>>

\* the ValidationRule catalog, the processed documents the pattern analysis
\* and the validation read, the auto-create runs under way, the last report
svars == <<rules, samples, runs, report>>

vars == <<catalogue, docs, execs, approvals, inflight, last,
          rules, samples, runs, report>>

(***************************************************************************)
(* Bounds of the model.                                                    *)
(***************************************************************************)
\* executions started, workflow steps they span in total, requests in flight
MaxExecs == 2
MaxSteps == 4
MaxInflight == 1

(***************************************************************************)
(* A null reference (None), users, documents.                              *)
(***************************************************************************)
None == "none"
Users == {"u1", "u2"}
Docs == {"d1", "d2"}
Comments == {"no"}

(***************************************************************************)
(* JSON values of Document.extracted_data.                                 *)
(***************************************************************************)
Num(n) == [t |-> "num", n |-> n]
Str(s) == [t |-> "str", s |-> s]
Dict(d) == [t |-> "dict", d |-> d]

IsDict(v) == v.t = "dict"
IsNum(v) == v.t = "num"
Has(v, k) == IsDict(v) /\ k \in DOMAIN v.d

\* Python float(x): a number converts, a numeric string parses, anything else
\* raises ValueError / TypeError (ok = FALSE).
Float(v) ==
    CASE v.t = "num" -> [ok |-> TRUE, n |-> v.n]
      [] v.t = "str" /\ v.s = "0" -> [ok |-> TRUE, n |-> 0]
      [] v.t = "str" /\ v.s = "100" -> [ok |-> TRUE, n |-> 100]
      [] v.t = "str" /\ v.s = "500" -> [ok |-> TRUE, n |-> 500]
      [] v.t = "str" /\ v.s = "1500" -> [ok |-> TRUE, n |-> 1500]
      [] OTHER -> [ok |-> FALSE, n |-> 0]

\* Python str(x)
PyStr(v) ==
    CASE v.t = "num" -> ToString(v.n)
      [] v.t = "str" -> v.s
      [] OTHER -> "{...}"

\* The extracted_data a document can carry (None: nothing was extracted).
NoData == [t |-> "null"]
ExtractedData == {
    NoData,
    Dict([total |-> Num(500)]),
    Dict([total |-> Num(0)]),
    Dict([total |-> Str("500")]),
    Dict([total |-> Dict([value |-> Str("500"), confidence |-> Num(1)])]),
    Dict([total |-> Dict([value |-> Str("n/a"), confidence |-> Num(1)]),
          subtotal |-> Num(1500)]) }

\* `if not document.extracted_data`: None or an empty dict
Falsy(data) == data.t = "null" \/ (IsDict(data) /\ DOMAIN data.d = {})

(***************************************************************************)
(* _extract_document_amount                                                *)
(***************************************************************************)
amount_fields == <<"total", "amount", "total_amount", "grand_total", "subtotal">>

NoAmount == [found |-> FALSE, n |-> 0]

RECURSIVE AmountFrom(_, _)
AmountFrom(data, i) ==
    IF i > Len(amount_fields) THEN NoAmount
    ELSE LET field == amount_fields[i] IN
         IF field \notin DOMAIN data.d THEN AmountFrom(data, i + 1)
         ELSE LET field_data == data.d[field] IN
              IF Has(field_data, "value")
              THEN LET f == Float(field_data.d["value"]) IN
                   IF f.ok THEN [found |-> TRUE, n |-> f.n]
                   ELSE AmountFrom(data, i + 1)
              ELSE IF IsNum(field_data)
                   THEN [found |-> TRUE, n |-> field_data.n]
                   ELSE AmountFrom(data, i + 1)

_extract_document_amount(data) ==
    IF Falsy(data) THEN NoAmount ELSE AmountFrom(data, 1)

(***************************************************************************)
(* _get_document_field_value: a field name is held as its '.'-split list   *)
(* of keys; a one-key name is the branch without '.'.                      *)
(***************************************************************************)
Missing == [t |-> "null"]

RECURSIVE Walk(_, _, _)
Walk(value, keys, i) ==
    IF i > Len(keys) THEN value
    ELSE IF Has(value, keys[i]) THEN Walk(value.d[keys[i]], keys, i + 1)
         ELSE Missing

_get_document_field_value(data, field_name) ==
    IF Falsy(data) THEN Missing
    ELSE LET value == IF Len(field_name) > 1
                      THEN Walk(data, field_name, 1)
                      ELSE IF field_name[1] \in DOMAIN data.d
                           THEN data.d[field_name[1]] ELSE Missing
         IN IF Has(value, "value") THEN value.d["value"] ELSE value

\* `needle.lower() in hay.lower()` over the strings of the model
Contains(needle, hay) ==
    \/ needle = hay
    \/ needle = ""
    \/ needle = "5" /\ hay \in {"500", "1500"}
    \/ needle = "00" /\ hay \in {"100", "500", "1500"}
    \/ needle = "acme" /\ hay \in {"acme", "ACME Corp"}

(***************************************************************************)
(* _check_step_conditions                                                  *)
(***************************************************************************)
NoField == <<>>

_check_step_conditions(data, step) ==
    IF step.condition_field = NoField THEN TRUE
    ELSE LET field_value == _get_document_field_value(data, step.condition_field)
             condition_value == Str(step.condition_value)
             operator == step.condition_operator
         IN IF field_value.t = "null" THEN FALSE
            ELSE CASE operator = "eq" -> PyStr(field_value) = PyStr(condition_value)
                   [] operator = "gt" ->
                        Float(field_value).ok /\ Float(condition_value).ok
                        /\ Float(field_value).n > Float(condition_value).n
                   [] operator = "lt" ->
                        Float(field_value).ok /\ Float(condition_value).ok
                        /\ Float(field_value).n < Float(condition_value).n
                   [] operator = "contains" ->
                        Contains(PyStr(condition_value), PyStr(field_value))
                   [] OTHER -> FALSE

(***************************************************************************)
(* Workflow definitions: Workflow and its ordered WorkflowStep rows.       *)
(***************************************************************************)
Step(order, type) ==
    [step_order |-> order, step_type |-> type, approver |-> None,
     approval_group |-> None, requires_all_approvers |-> FALSE,
     integration_system |-> None, condition_field |-> NoField,
     condition_value |-> "", condition_operator |-> None]

Workflows ==
    [proc |-> [requires_approval |-> FALSE, approval_threshold |-> 0,
               auto_approve_below_threshold |-> FALSE,
               steps |-> << Step(1, "processing"), Step(2, "processing") >>],
     appr |-> [requires_approval |-> TRUE, approval_threshold |-> 1000,
               auto_approve_below_threshold |-> TRUE,
               steps |-> << [Step(1, "approval") EXCEPT !.approver = "u1"],
                            [Step(2, "processing") EXCEPT !.condition_field = <<"total">>,
                                                          !.condition_value = "100",
                                                          !.condition_operator = "gt"],
                            [Step(3, "approval") EXCEPT !.approval_group = "managers"],
                            Step(4, "notification") >>],
     sign |-> [requires_approval |-> TRUE, approval_threshold |-> 1000,
               auto_approve_below_threshold |-> FALSE,
               steps |-> << [Step(1, "approval") EXCEPT !.approver = "u1",
                                                        !.requires_all_approvers = TRUE],
                            Step(2, "processing") >>],
     integ |-> [requires_approval |-> TRUE, approval_threshold |-> 1000,
                auto_approve_below_threshold |-> FALSE,
                steps |-> << [Step(1, "integration") EXCEPT !.integration_system = "erp"],
                             Step(2, "approval") >>],
     cond |-> [requires_approval |-> FALSE, approval_threshold |-> 0,
               auto_approve_below_threshold |-> FALSE,
               steps |-> << [Step(1, "approval") EXCEPT !.approver = "u1",
                                                        !.condition_field = <<"total">>,
                                                        !.condition_value = "500",
                                                        !.condition_operator = "eq"],
                            [Step(2, "integration") EXCEPT !.integration_system = "erp",
                                                           !.condition_field = <<"total">>,
                                                           !.condition_value = "00",
                                                           !.condition_operator = "contains"],
                            [Step(3, "notification") EXCEPT !.condition_field = <<"total">>,
                                                            !.condition_value = "500",
                                                            !.condition_operator = "ne"] >>],
     empty |-> [requires_approval |-> FALSE, approval_threshold |-> 0,
                auto_approve_below_threshold |-> FALSE,
                steps |-> << >>]]

WorkflowIds == DOMAIN Workflows

\* members of the approval groups, in the order the user query returns them
Groups == [managers |-> <<"u2", "u1">>]

\* workflow.steps.filter(step_order=k).afirst(): the row, as its position in
\* the workflow's steps, or 0 when there is none
StepAt(w, k) ==
    LET steps == Workflows[w].steps
        hits == {i \in 1..Len(steps) : steps[i].step_order = k}
    IN IF hits = {} THEN 0 ELSE CHOOSE i \in hits : \A j \in hits : i <= j

(***************************************************************************)
(* Rows.  A WorkflowExecution's current_step is the position of the step   *)
(* in its workflow (0: null); `ran` is the history of the steps the engine *)
(* dispatched for it, in order.  A DocumentApproval's workflow_step is the *)
(* pair (workflow, step).  pk stands for the random UUID primary key,      *)
(* which is what an unordered .afirst() orders by.  completed_at and       *)
(* reviewed hold whether the timestamp is set.                             *)
(***************************************************************************)
NoError == [kind |-> "", by |-> None, comments |-> ""]

NewExecution(pk, d, w, status) ==
    [pk |-> pk, document |-> d, workflow |-> w, status |-> status,
     current_step |-> 0, error_log |-> NoError, completed_at |-> FALSE,
     auto_approved |-> FALSE,
     steps_completed |-> 0, steps_skipped |-> 0, pending_approvals |-> << >>,
     integration_results |-> << >>, ran |-> << >>]

\* execution_data.get('current_approval_level', 1); nothing ever sets the key
DefaultApprovalLevel == 1

StepOf(st, e) == Workflows[st.execs[e].workflow].steps[st.execs[e].current_step]

Ran(st, e, step, kind) ==
    [st EXCEPT !.execs[e].ran = Append(@, [order |-> step.step_order, kind |-> kind])]

SetStatus(st, e, status) ==
    [st EXCEPT !.execs[e].status = status, !.trace = Append(@, status)]

Result(st, res) == [st |-> st, res |-> res]

(***************************************************************************)
(* _get_approver_from_group                                                *)
(***************************************************************************)
_get_approver_from_group(group_name, level) ==
    LET user_list == IF group_name \in DOMAIN Groups THEN Groups[group_name] ELSE << >>
    IN IF level = 1
       THEN IF user_list = << >> THEN None ELSE user_list[1]
       ELSE IF Len(user_list) >= level THEN user_list[level]
            ELSE IF user_list = << >> THEN None ELSE user_list[Len(user_list)]

(***************************************************************************)
(* _execute_approval_step                                                  *)
(***************************************************************************)
ResolveApprover(step, approval_level) ==
    IF step.approver # None THEN step.approver
    ELSE IF step.approval_group # None
         THEN _get_approver_from_group(step.approval_group, approval_level)
         ELSE None

_execute_approval_step(st, e, step) ==
    LET approval_level == DefaultApprovalLevel
        approver == ResolveApprover(step, approval_level)
        x == st.execs[e]
        approval == [document |-> x.document, workflow |-> x.workflow,
                     workflow_step |-> x.current_step, approver |-> approver,
                     approval_level |-> approval_level, status |-> "pending",
                     comments |-> "", reviewed |-> FALSE]
        id == Len(st.approvals) + 1
    IN IF approver = None THEN Result(st, "failed")
       ELSE Result([st EXCEPT !.approvals = Append(@, approval),
                              !.docs[x.document].workflow_status = "pending",
                              !.docs[x.document].current_approver = approver,
                              !.execs[e].pending_approvals = Append(@, id)],
                   "approval_pending")

(***************************************************************************)
(* The step dispatcher and its handlers.  `env` is what the integration    *)
(* collaborator does when it is called during this handler.                *)
(***************************************************************************)
IntegrationOutcomes == {"success", "error", "raise", "noconfig"}

\* the outcomes to draw from: only a workflow with an integration step asks
Outcomes(ws) ==
    IF \E w \in ws : \E i \in 1..Len(Workflows[w].steps) :
           Workflows[w].steps[i].step_type = "integration"
    THEN IntegrationOutcomes ELSE {"success"}

RECURSIVE _execute_workflow_step(_, _, _, _)
RECURSIVE _move_to_next_step(_, _, _)

_skip_step_Acts(st, e, step, env) ==
    IF step.step_type = "approval"
    THEN _execute_approval_step([st EXCEPT !.execs[e].steps_skipped = @ + 1], e, step)
    ELSE _move_to_next_step([st EXCEPT !.execs[e].steps_skipped = @ + 1], e, env)

_skip_step(st, e, step, env) ==
    _move_to_next_step([st EXCEPT !.execs[e].steps_skipped = @ + 1], e, env)

_execute_integration_step(st, e, step, env) ==
    IF step.integration_system = None THEN Result(st, "failed")
    ELSE IF env \in {"noconfig", "raise"} THEN Result(st, "failed")
    ELSE LET st1 == [st EXCEPT !.execs[e].integration_results = Append(@, env)]
         IN IF env = "success" THEN _move_to_next_step(st1, e, env)
            ELSE Result(st1, "failed")

_execute_notification_step(st, e, step, env) ==
    _move_to_next_step(st, e, env)

_execute_processing_step_Stalls(st, e, step, env) ==
    Result(st, "processed")

_execute_processing_step(st, e, step, env) ==
    _move_to_next_step(st, e, env)

_execute_workflow_step(st, e, i, env) ==
    LET step == Workflows[st.execs[e].workflow].steps[i]
        data == st.docs[st.execs[e].document].extracted_data
    IN IF ~_check_step_conditions(data, step)
       THEN _skip_step(Ran(st, e, step, "skipped"), e, step, env)
       ELSE LET st1 == Ran(st, e, step, step.step_type) IN
            CASE step.step_type = "approval" -> _execute_approval_step(st1, e, step)
              [] step.step_type = "integration" ->
                    _execute_integration_step(st1, e, step, env)
              [] step.step_type = "notification" ->
                    _execute_notification_step(st1, e, step, env)
              [] OTHER -> _execute_processing_step(st1, e, step, env)

\* filter(step_order=current_step.step_order + 1); on a null current_step
\* the attribute access raises (res = "raise")
NextStepOrder_Skips(order) == order + 2

NextStepOrder(order) == order + 1

_move_to_next_step(st, e, env) ==
    LET x == st.execs[e] IN
    IF x.current_step = 0 THEN Result(st, "raise")
    ELSE LET next_step == StepAt(x.workflow, NextStepOrder(StepOf(st, e).step_order))
         IN IF next_step # 0
            THEN _execute_workflow_step(
                     [st EXCEPT !.execs[e].current_step = next_step,
                                !.execs[e].steps_completed = @ + 1],
                     e, next_step, env)
            ELSE Result([SetStatus(st, e, "completed") EXCEPT
                            !.execs[e].completed_at = TRUE,
                            !.docs[x.document].workflow_status = "approved",
                            !.docs[x.document].current_approver = None],
                        "completed")

(***************************************************************************)
(* _check_approval_required, _auto_approve_document                        *)
(***************************************************************************)
\* `if amount and amount < workflow.approval_threshold`
BelowThreshold(amount, workflow) ==
    amount.found /\ amount.n # 0 /\ amount.n < workflow.approval_threshold

_check_approval_required(data, workflow) ==
    IF ~workflow.requires_approval THEN FALSE
    ELSE IF workflow.approval_threshold # 0
            /\ BelowThreshold(_extract_document_amount(data), workflow)
            /\ workflow.auto_approve_below_threshold
         THEN FALSE
         ELSE TRUE

_auto_approve_document(st, d, w, pk) ==
    LET execution == [NewExecution(pk, d, w, "completed") EXCEPT !.auto_approved = TRUE]
    IN Result([st EXCEPT !.execs = Append(@, execution),
                         !.trace = Append(@, "completed"),
                         !.docs[d].workflow_status = "approved"],
              "auto_approved")

(***************************************************************************)
(* The state of the store as the step functions pass it along; trace is    *)
(* the statuses the running handler assigned to its execution, in order.   *)
(***************************************************************************)
Store == [docs |-> docs, execs |-> execs, approvals |-> approvals, trace |-> << >>]

Commit(st) ==
    /\ docs' = st.docs
    /\ execs' = st.execs
    /\ approvals' = st.approvals

\* the last operation: its name, what it returned, the statuses it assigned
Op(op, result, trace) == [op |-> op, result |-> result, trace |-> trace]

\* A new row's random key falls anywhere among the keys there are: only the
\* order of the keys is kept, as ranks 1..n, and the new row takes rank pk.
MakeRoom(st, pk) ==
    [st EXCEPT !.execs = [i \in 1..Len(st.execs) |->
        IF st.execs[i].pk >= pk THEN [st.execs[i] EXCEPT !.pk = @ + 1]
        ELSE st.execs[i]]]

RECURSIVE StepsStarted(_)
StepsStarted(n) ==
    IF n = 0 THEN 0 ELSE Len(Workflows[execs[n].workflow].steps) + StepsStarted(n - 1)

(***************************************************************************)
(* start_document_workflow (reached through process_document_in_workflow   *)
(* from the process_workflow, trigger_workflow and execute endpoints)      *)
(***************************************************************************)
start_document_workflow(st, d, w, pk, env) ==
    LET workflow == Workflows[w]
        data == st.docs[d].extracted_data
    IN IF workflow.requires_approval /\ ~_check_approval_required(data, workflow)
       THEN _auto_approve_document(st, d, w, pk)
       ELSE LET e == Len(st.execs) + 1
                st1 == [st EXCEPT !.execs = Append(@, NewExecution(pk, d, w, "started")),
                                  !.trace = Append(@, "started")]
                first_step == StepAt(w, 1)
            IN IF first_step = 0
               THEN Result([SetStatus(st1, e, "failed") EXCEPT
                               !.execs[e].error_log =
                                   [NoError EXCEPT !.kind = "No steps defined in workflow"]],
                           "failed")
               ELSE LET st2 == [SetStatus(st1, e, "in_progress") EXCEPT
                                   !.execs[e].current_step = first_step]
                        r == _execute_workflow_step(st2, e, first_step, env)
                    IN Result(r.st, "started")

Start(d, w, pk, env) ==
    /\ Len(execs) < MaxExecs
    /\ StepsStarted(Len(execs)) + Len(Workflows[w].steps) <= MaxSteps
    /\ pk \in 1..(Len(execs) + 1)
    /\ w \in catalogue
    /\ LET r == start_document_workflow(MakeRoom(Store, pk), d, w, pk, env)
       IN /\ Commit(r.st)
          /\ last' = Op("start", r.res, r.st.trace)
    /\ UNCHANGED <<catalogue, inflight>>
    /\ UNCHANGED svars

(***************************************************************************)
(* handle_approval_response.  Begin is the part up to `await               *)
(* approval.asave()`: the authorization check and the update of the        *)
(* approval.  End is the rest, run on the approval object the handler      *)
(* holds: it loads the execution and dispatches on the action.             *)
(***************************************************************************)
Actions == {"approved", "rejected", "delegated"}

Request(kind, a, action, comments) ==
    [kind |-> kind, approval |-> a, action |-> action, comments |-> comments]

Authorized_Anyone(approval, approver) == TRUE

Authorized(approval, approver) == approval.approver = approver

\* approval.document.workflow_executions.afirst(): unordered, so by primary key
FirstExecution(st, d) ==
    LET mine == {i \in 1..Len(st.execs) : st.execs[i].document = d}
    IN IF mine = {} THEN 0
       ELSE CHOOSE i \in mine : \A j \in mine : st.execs[i].pk <= st.execs[j].pk

\* approval.workflow_step.approvals.filter(approval_level=..., status='pending')
PendingAtLevel(st, approval) ==
    {i \in 1..Len(st.approvals) :
        /\ st.approvals[i].workflow = approval.workflow
        /\ st.approvals[i].workflow_step = approval.workflow_step
        /\ st.approvals[i].approval_level = approval.approval_level
        /\ st.approvals[i].status = "pending"}

MustWait(st, approval) ==
    /\ Workflows[approval.workflow].steps[approval.workflow_step].requires_all_approvers
    /\ Cardinality(PendingAtLevel(st, approval)) > 0

_handle_approval_approved(st, approval, execution, env) ==
    IF MustWait(st, approval) THEN Result(st, "waiting")
    ELSE IF execution = 0 THEN Result(st, "raise")
         ELSE _move_to_next_step(st, execution, env)

_handle_approval_rejected(st, approval, execution) ==
    IF execution = 0 THEN Result(st, "raise")
    ELSE LET d == st.execs[execution].document IN
         Result([SetStatus(st, execution, "failed") EXCEPT
                    !.execs[execution].error_log =
                        [kind |-> "Rejected by", by |-> approval.approver,
                         comments |-> approval.comments],
                    !.execs[execution].completed_at = TRUE,
                    !.docs[d].workflow_status = "rejected",
                    !.docs[d].current_approver = None],
                "rejected")

_handle_approval_delegated(st, approval, execution) ==
    Result(st, "delegated")

HandleApprovalResponseBegin(a, approver, action, comments) ==
    /\ a \in 1..Len(approvals)
    /\ IF ~Authorized(approvals[a], approver)
       THEN /\ last' = Op("respond", "unauthorized", << >>)
            /\ UNCHANGED <<docs, execs, approvals, inflight>>
       ELSE /\ Cardinality(inflight) < MaxInflight
            /\ approvals' = [approvals EXCEPT ![a].status = action,
                                              ![a].comments = comments,
                                              ![a].reviewed = TRUE]
            /\ Request("respond", a, action, comments) \notin inflight
            /\ inflight' = inflight \cup {Request("respond", a, action, comments)}
            /\ last' = Op("respond_saved", "", << >>)
            /\ UNCHANGED <<docs, execs>>
    /\ UNCHANGED catalogue
    /\ UNCHANGED svars

handle_approval_response(st, approval, action, env) ==
    LET execution == FirstExecution(st, approval.document)
        r == CASE action = "approved" ->
                    _handle_approval_approved(st, approval, execution, env)
               [] action = "rejected" ->
                    _handle_approval_rejected(st, approval, execution)
               [] OTHER -> _handle_approval_delegated(st, approval, execution)
    IN IF r.res = "raise" THEN Result(r.st, "error") ELSE r

HandleApprovalResponseEnd(req, env) ==
    /\ req \in inflight
    /\ req.kind = "respond"
    /\ LET
           approval == [approvals[req.approval] EXCEPT !.status = req.action,
                                                       !.comments = req.comments]
           r == handle_approval_response(Store, approval, req.action, env)
       IN /\ Commit(r.st)
          /\ last' = Op("respond", r.res, r.st.trace)
    /\ inflight' = inflight \ {req}
    /\ UNCHANGED catalogue
    /\ UNCHANGED svars

(***************************************************************************)
(* DocumentApprovalViewSet.approve / reject: the request updates the       *)
(* approval and starts a thread; the thread looks the execution up by      *)
(* (document, status='in_progress') and continues or stops it.             *)
(***************************************************************************)
ViewSave(a, status, comments, kind) ==
    /\ a \in 1..Len(approvals)
    /\ Cardinality(inflight) < MaxInflight
    /\ Request(kind, a, status, comments) \notin inflight
    /\ approvals' = [approvals EXCEPT ![a].status = status,
                                      ![a].comments = comments,
                                      ![a].reviewed = TRUE]
    /\ inflight' = inflight \cup {Request(kind, a, status, comments)}
    /\ last' = Op(kind, "", << >>)
    /\ UNCHANGED <<catalogue, docs, execs>>
    /\ UNCHANGED svars

ViewApprove(a, comments) == ViewSave(a, "approved", comments, "continue")

ViewReject(a, comments) == ViewSave(a, "rejected", comments, "stop")

\* WorkflowExecution.objects.aget(document=..., status='in_progress'): the one
\* such row; none or several raise, which the thread swallows (0)
InProgressExecution(st, d) ==
    LET found == {i \in 1..Len(st.execs) :
                     st.execs[i].document = d /\ st.execs[i].status = "in_progress"}
    IN IF Cardinality(found) = 1 THEN CHOOSE i \in found : TRUE ELSE 0

continue_workflow(st, execution, env) ==
    LET r == _move_to_next_step(st, execution, env)
    IN IF r.res = "raise"
       THEN Result([SetStatus(r.st, execution, "failed") EXCEPT
                       !.execs[execution].error_log =
                           [NoError EXCEPT !.kind = "Error continuing workflow"]],
                   "failed")
       ELSE r

_continue_workflow_after_approval(st, approval, env) ==
    LET execution == InProgressExecution(st, approval.document)
    IN IF execution = 0 THEN Result(st, "error")
       ELSE continue_workflow(st, execution, env)

_stop_workflow_after_rejection(st, approval) ==
    LET execution == InProgressExecution(st, approval.document)
    IN IF execution = 0 THEN Result(st, "error")
       ELSE Result([SetStatus(st, execution, "failed") EXCEPT
                       !.execs[execution].error_log =
                           [kind |-> "Document rejected in approval step",
                            by |-> None, comments |-> approval.comments],
                       !.execs[execution].completed_at = TRUE],
                   "stopped")

ViewThread(req, env) ==
    /\ req \in inflight
    /\ req.kind \in {"continue", "stop"}
    /\ LET
           approval == [approvals[req.approval] EXCEPT !.status = req.action,
                                                       !.comments = req.comments]
           r == IF req.kind = "continue"
                THEN _continue_workflow_after_approval(Store, approval, env)
                ELSE _stop_workflow_after_rejection(Store, approval)
       IN /\ Commit(r.st)
          /\ last' = Op(req.kind \o "_thread", r.res, r.st.trace)
    /\ inflight' = inflight \ {req}
    /\ UNCHANGED catalogue
    /\ UNCHANGED svars

(***************************************************************************)
(* WorkflowExecutionViewSet.cancel                                         *)
(***************************************************************************)
CanCancel_Always(execution) == TRUE

CanCancel(execution) == execution.status \in {"in_progress", "started"}

Cancel(e) ==
    /\ e \in 1..Len(execs)
    /\ IF ~CanCancel(execs[e])
       THEN /\ last' = Op("cancel", "error", << >>)
            /\ UNCHANGED execs
       ELSE /\ execs' = [execs EXCEPT ![e].status = "cancelled",
                                       ![e].completed_at = TRUE]
            /\ last' = Op("cancel", "cancelled", <<"cancelled">>)
    /\ UNCHANGED <<catalogue, docs, approvals, inflight>>
    /\ UNCHANGED svars

(***************************************************************************)
(* The system.                                                             *)
(***************************************************************************)
NewDocument(data) ==
    [extracted_data |-> data, workflow_status |-> None, current_approver |-> None]

\* no validation or auto-create has reported yet
NoReport == [op |-> "none"]

\* The workflows the store holds
Catalogues == {{w} : w \in WorkflowIds}

\* What the extraction pipeline left in the documents: d1 carries any of the
\* shapes where the workflow reads amounts or conditions, a plain total otherwise.
DocumentData(c) ==
    IF c \in {{"appr"}, {"cond"}} THEN ExtractedData ELSE {Dict([total |-> Num(500)])}

Init ==
    /\ catalogue \in Catalogues
    /\ \E data \in DocumentData(catalogue) :
          docs = [d \in Docs |-> IF d = "d1" THEN NewDocument(data)
                                 ELSE NewDocument(Dict([total |-> Num(1500)]))]
    /\ execs = << >>
    /\ approvals = << >>
    /\ inflight = {}
    /\ last = Op("init", "", << >>)
    /\ rules = << >>
    /\ samples = << >>
    /\ runs = {}
    /\ report = NoReport

Next ==
    \/ \E d \in Docs, w \in WorkflowIds, pk \in 1..(Len(execs) + 1), env \in Outcomes(catalogue) :
          Start(d, w, pk, env)
    \/ \E a \in 1..Len(approvals), u \in Users, action \in Actions, c \in Comments :
          HandleApprovalResponseBegin(a, u, action, c)
    \/ \E req \in inflight, env \in Outcomes(catalogue) :
          HandleApprovalResponseEnd(req, env)
    \/ \E a \in 1..Len(approvals), c \in Comments : ViewApprove(a, c)
    \/ \E a \in 1..Len(approvals), c \in Comments : ViewReject(a, c)
    \/ \E req \in inflight, env \in Outcomes(catalogue) : ViewThread(req, env)
    \/ \E e \in 1..Len(execs) : Cancel(e)

Spec == Init /\ [][Next]_vars

(***************************************************************************)
(* Vocabulary of the properties.                                           *)
(***************************************************************************)
Execs == 1..Len(execs)
Approvals == 1..Len(approvals)
Terminal == {"completed", "failed", "cancelled"}

StepsOf(x) == Workflows[x.workflow].steps

\* step_order of an execution row's current step (0 when it has none)
OrderOf(x) == IF x.current_step = 0 THEN 0 ELSE StepsOf(x)[x.current_step].step_order

\* the execution that created approval a: the one that recorded its id
Owner(a) == CHOOSE e \in Execs : \E k \in 1..Len(execs[e].pending_approvals) :
                execs[e].pending_approvals[k] = a

\* the history of dispatched steps runs 1, 2, 3, ... and ends at the current step
InOrder(x) ==
    /\ \A k \in 1..Len(x.ran) : x.ran[k].order = k
    /\ OrderOf(x) = Len(x.ran)

IsPrefix(s, t) == Len(s) <= Len(t) /\ SubSeq(t, 1, Len(s)) = s

\* C5: for every execution, under any sequence of operations, the steps that
\* execute or are skipped do so in ascending step_order 1, 2, 3, ... without a
\* gap or a repeat, current_step is the last of them, and what has run is never
\* undone: current_step.step_order never decreases.
C5_StepsAscend ==
    [][\A e \in 1..Len(execs') :
          /\ InOrder(execs'[e])
          /\ e \in Execs => /\ IsPrefix(execs[e].ran, execs'[e].ran)
                            /\ OrderOf(execs'[e]) >= OrderOf(execs[e])]_vars

\* an execution went through its four steps, one of them skipped on its
\* condition, resumed by the approval of each of its two approval steps
C5_Witness ==
    \E e \in Execs :
        /\ Len(execs[e].ran) = 4
        /\ execs[e].steps_skipped = 1
        /\ execs[e].status = "completed"
        /\ Len(approvals) = 2
        /\ \A a \in Approvals : approvals[a].status = "approved"

ProcessingOnly(w) ==
    /\ Len(Workflows[w].steps) >= 1
    /\ \A i \in 1..Len(Workflows[w].steps) :
          /\ Workflows[w].steps[i].step_type = "processing"
          /\ Workflows[w].steps[i].condition_field = NoField
          /\ Workflows[w].steps[i].step_order = i

\* C7: start on a workflow of unconditional processing steps 1..n that does
\* not auto-approve takes the execution through started, in_progress,
\* completed; it ends completed after all n steps, the document is approved
\* with no current approver, and no DocumentApproval was created.
C7_ProcessingCompletes ==
    [][\A d \in Docs, w \in WorkflowIds :
          (/\ ProcessingOnly(w)
           /\ last'.op = "start"
           /\ Len(execs') = Len(execs) + 1
           /\ execs'[Len(execs')].document = d
           /\ execs'[Len(execs')].workflow = w
           /\ last'.result # "auto_approved")
          => /\ last'.trace = <<"started", "in_progress", "completed">>
             /\ execs'[Len(execs')].status = "completed"
             /\ Len(execs'[Len(execs')].ran) = Len(Workflows[w].steps)
             /\ docs'[d].workflow_status = "approved"
             /\ docs'[d].current_approver = None
             /\ approvals' = approvals]_vars

C7_Witness ==
    /\ last.op = "start"
    /\ last.trace = <<"started", "in_progress", "completed">>
    /\ execs # << >>
    /\ ProcessingOnly(execs[Len(execs)].workflow)
    /\ Len(execs[Len(execs)].ran) = 2

\* C8: handle_approval_response from an approver other than the assigned one
\* returns an error and changes nothing: approval, execution and document
\* are as before, whatever the action.
C8_UnauthorizedChangesNothing ==
    [][\A a \in Approvals, u \in Users, action \in Actions, c \in Comments :
          (HandleApprovalResponseBegin(a, u, action, c) /\ approvals[a].approver # u)
          => /\ last'.result = "unauthorized"
             /\ UNCHANGED <<docs, execs, approvals, inflight>>]_vars

\* a response by the wrong user was just turned down, the approval still pending
C8_Witness ==
    /\ last.op = "respond"
    /\ last.result = "unauthorized"
    /\ \E a \in Approvals : approvals[a].status = "pending"

\* a response of the given action to approval a completes in this step
Responds(req, action) ==
    /\ req \in inflight
    /\ req.kind = "respond"
    /\ req.action = action
    /\ inflight' = inflight \ {req}
    /\ last'.op = "respond"

RejectedBy(x) == x.status = "failed" /\ x.error_log.kind = "Rejected by"

\* C1: a 'rejected' response from the assigned approver leaves the owning
\* execution failed, its error_log naming the approver and the comments, the
\* document rejected with no current approver; and from then on no operation
\* executes a step of that execution, moves its current_step or takes it out
\* of 'failed'.
C1_RejectionIsFinal ==
    [][/\ \A req \in inflight :
            Responds(req, "rejected")
            => LET x == execs'[Owner(req.approval)] IN
               /\ x.status = "failed"
               /\ x.error_log = [kind |-> "Rejected by",
                                 by |-> approvals[req.approval].approver,
                                 comments |-> req.comments]
               /\ docs'[x.document].workflow_status = "rejected"
               /\ docs'[x.document].current_approver = None
       /\ \A e \in Execs :
            RejectedBy(execs[e])
            => /\ execs'[e].status = "failed"
               /\ execs'[e].current_step = execs[e].current_step
               /\ execs'[e].ran = execs[e].ran]_vars

\* the approval the execution created for the step it is at
CurrentApproval(x) == x.pending_approvals[Len(x.pending_approvals)]

\* parked: in progress at an approval step whose approval is still pending
Parked(x) ==
    /\ x.status = "in_progress"
    /\ x.current_step # 0
    /\ StepsOf(x)[x.current_step].step_type = "approval"
    /\ x.pending_approvals # << >>
    /\ approvals[CurrentApproval(x)].workflow_step = x.current_step
    /\ approvals[CurrentApproval(x)].status = "pending"

\* C2: while the approval of the step an execution is parked at is pending,
\* no operation moves the execution: it stays at that step, no further step
\* runs and it does not complete.
C2_ParkedUntilApproved ==
    [][\A e \in Execs :
          Parked(execs[e])
          => /\ execs'[e].current_step = execs[e].current_step
             /\ execs'[e].ran = execs[e].ran
             /\ execs'[e].status # "completed"]_vars

\* C3: completed, failed and cancelled are absorbing: no operation changes the
\* status or the current_step of such an execution or runs a step for it.
C3_TerminalIsAbsorbing ==
    [][\A e \in Execs :
          execs[e].status \in Terminal
          => /\ execs'[e].status = execs[e].status
             /\ execs'[e].current_step = execs[e].current_step
             /\ execs'[e].ran = execs[e].ran]_vars

\* C4: per (document, workflow) at most one execution is started or in_progress.
C4_OneLiveExecution ==
    \A d \in Docs, w \in WorkflowIds :
        Cardinality({e \in Execs : /\ execs[e].document = d
                                   /\ execs[e].workflow = w
                                   /\ execs[e].status \in {"started", "in_progress"}}) <= 1

\* The amount as C6 reads it: the first of the amount fields that is present,
\* a {value, confidence} pair unwrapped, a number or a numeric string taken as
\* the number, 0 included.
ClaimedAmount(data) ==
    IF ~IsDict(data) THEN NoAmount
    ELSE LET present == {i \in 1..Len(amount_fields) : amount_fields[i] \in DOMAIN data.d}
         IN IF present = {} THEN NoAmount
            ELSE LET i == CHOOSE k \in present : \A j \in present : k <= j
                     v == data.d[amount_fields[i]]
                     f == Float(IF Has(v, "value") THEN v.d["value"] ELSE v)
                 IN IF f.ok THEN [found |-> TRUE, n |-> f.n] ELSE NoAmount

\* C6: with requires_approval and auto_approve_below_threshold set and an
\* amount below the threshold in the document, start returns auto_approved:
\* one completed execution marked auto_approved, the document approved, no
\* step run, no approval created, the execution never started or in_progress.
C6_AutoApproveBelowThreshold ==
    [][\A d \in Docs, w \in WorkflowIds :
          (/\ last'.op = "start"
           /\ Len(execs') = Len(execs) + 1
           /\ execs'[Len(execs')].document = d
           /\ execs'[Len(execs')].workflow = w
           /\ Workflows[w].requires_approval
           /\ Workflows[w].auto_approve_below_threshold
           /\ ClaimedAmount(docs[d].extracted_data).found
           /\ ClaimedAmount(docs[d].extracted_data).n < Workflows[w].approval_threshold)
          => /\ last'.result = "auto_approved"
             /\ last'.trace = <<"completed">>
             /\ execs'[Len(execs')].status = "completed"
             /\ execs'[Len(execs')].auto_approved
             /\ execs'[Len(execs')].ran = << >>
             /\ docs'[d].workflow_status = "approved"
             /\ approvals' = approvals]_vars

OthersPending(a) ==
    \E b \in Approvals \ {a} :
        /\ approvals[b].workflow = approvals[a].workflow
        /\ approvals[b].workflow_step = approvals[a].workflow_step
        /\ approvals[b].approval_level = approvals[a].approval_level
        /\ approvals[b].status = "pending"

RequiresAll(a) ==
    Workflows[approvals[a].workflow].steps[approvals[a].workflow_step].requires_all_approvers

\* the execution is in progress at the step the approval was created for
WaitsOn(x, a) ==
    /\ x.status = "in_progress"
    /\ x.workflow = approvals[a].workflow
    /\ x.current_step = approvals[a].workflow_step

\* C9: on a step that requires all approvers, an 'approved' response that
\* leaves another approval of the level pending changes no execution; the
\* response that resolves the last one advances the execution waiting on that
\* approval, past that step and once, and no other execution.
C9_AdvanceOnLastApproval ==
    [][\A req \in inflight :
          (Responds(req, "approved") /\ RequiresAll(req.approval))
          => IF OthersPending(req.approval)
             THEN execs' = execs
             ELSE LET e == Owner(req.approval) IN
                  WaitsOn(execs[e], req.approval)
                  => /\ Len(execs'[e].ran) = Len(execs[e].ran) + 1
                        \/ execs'[e].status = "completed"
                     /\ \A o \in Execs \ {e} : execs'[o] = execs[o]]_vars

\* C10: a 'delegated' response leaves the original approval delegated, a new
\* pending approval on the same document, step and level, and the execution
\* in progress at the same step.
C10_DelegationReassigns ==
    [][\A req \in inflight :
          Responds(req, "delegated")
          => LET a == req.approval
                 e == Owner(a)
             IN /\ approvals'[a].status = "delegated"
                /\ \E b \in (1..Len(approvals')) \ {a} :
                      /\ approvals'[b].status = "pending"
                      /\ approvals'[b].document = approvals[a].document
                      /\ approvals'[b].workflow = approvals[a].workflow
                      /\ approvals'[b].workflow_step = approvals[a].workflow_step
                      /\ approvals'[b].approval_level = approvals[a].approval_level
                /\ execs'[e].status = execs[e].status
                /\ execs'[e].current_step = execs[e].current_step]_vars

\* C11: an approval leaves 'pending' at most once: once it is approved or
\* rejected, no later response changes its status, comments or review time.
C11_ApprovalAnsweredOnce ==
    [][\A a \in Approvals :
          approvals[a].status \in {"approved", "rejected"}
          => /\ approvals'[a].status = approvals[a].status
             /\ approvals'[a].comments = approvals[a].comments
             /\ approvals'[a].reviewed = approvals[a].reviewed]_vars

\* the first step of the workflow is an integration step
IntegrationFirst(w) ==
    /\ Len(Workflows[w].steps) >= 1
    /\ Workflows[w].steps[1].step_type = "integration"
    /\ Workflows[w].steps[1].step_order = 1

\* C12: when an integration step executes, a collaborator result of 'success'
\* takes the engine on to the next step; every other outcome (a non-success
\* result, an exception, no active configuration) leaves the execution failed
\* with the error in error_log and no later step executed.
C12_IntegrationFailureFails ==
    [][\A d \in Docs, w \in WorkflowIds, pk \in 1..(Len(execs) + 1),
          env \in IntegrationOutcomes :
          (Start(d, w, pk, env) /\ IntegrationFirst(w))
          => LET x == execs'[Len(execs')] IN
             IF env = "success"
             THEN Len(x.ran) >= 2 /\ x.ran[2].order = 2
             ELSE /\ x.status = "failed"
                  /\ x.error_log # NoError
                  /\ Len(x.ran) = 1]_vars

\* an execution is at an approval step that has neither an approver nor a
\* group with a member
Unresolved(x) ==
    /\ x.current_step # 0
    /\ StepsOf(x)[x.current_step].step_type = "approval"
    /\ ResolveApprover(StepsOf(x)[x.current_step], DefaultApprovalLevel) = None

\* C13: (a) start on a workflow without a step of order 1 leaves the new
\* execution failed with an error recorded and nothing executed; (b) an
\* execution that reaches an approval step with no resolvable approver is
\* failed with an error, has created no approval and is not in progress.
C13_ConfigurationErrorsFail ==
    [][/\ \A d \in Docs, w \in WorkflowIds, pk \in 1..(Len(execs) + 1),
            env \in IntegrationOutcomes :
            (Start(d, w, pk, env) /\ StepAt(w, 1) = 0)
            => LET x == execs'[Len(execs')] IN
               /\ x.status = "failed"
               /\ x.error_log # NoError
               /\ x.ran = << >>
               /\ approvals' = approvals
       /\ \A e \in 1..Len(execs') :
            (Unresolved(execs'[e]) /\ (e \in Execs => ~Unresolved(execs[e])))
            => /\ execs'[e].status = "failed"
               /\ execs'[e].error_log # NoError
               /\ approvals' = approvals]_vars

\* C14: cancel succeeds exactly when the execution is started or in_progress
\* and then sets it cancelled; on a completed, failed or cancelled execution
\* it returns an error and leaves status, current_step and completed_at alone.
C14_CancelOnlyRunning ==
    [][\A e \in Execs :
          Cancel(e)
          => IF execs[e].status \in {"started", "in_progress"}
             THEN last'.result = "cancelled" /\ execs'[e].status = "cancelled"
             ELSE /\ last'.result = "error"
                  /\ execs'[e].status = execs[e].status
                  /\ execs'[e].current_step = execs[e].current_step
                  /\ execs'[e].completed_at = execs[e].completed_at]_vars

\* a cancel was turned down on a terminal execution, and one went through
C14_Witness ==
    /\ last.op = "cancel"
    /\ last.result = "error"
    /\ \E e \in Execs : execs[e].status = "cancelled"
    /\ \E e \in Execs : execs[e].status = "completed"

(***************************************************************************)
(* PatternAnalysisService (services/pattern_analysis_service.py).           *)
(*                                                                         *)
(* `samples` are the extracted_data of the processed documents of the      *)
(* document type, in the order the query returns them.  A confidence is    *)
(* the fraction num / den the code computes; a threshold is in percent.    *)
(***************************************************************************)
MaxDocs == 10
MaxWorkers == 2

DocumentType == "invoice"
Null == [t |-> "null"]

Fraction(num, den) == [num |-> num, den |-> den]

\* confidence >= percent / 100
AtLeast(confidence, percent) == confidence.num * 100 >= percent * confidence.den

\* the elements of a sequence that satisfy a test, and how many there are
Where(seq, Test(_)) == {i \in 1..Len(seq) : Test(seq[i])}
Count(seq, Test(_)) == Cardinality(Where(seq, Test))

\* re.match(pattern, s) over the patterns and the strings of the model
Matches(pattern, s) ==
    CASE pattern = "^[A-Z]{2,3}-\\d{4,}$" -> s \in {"INV-1001"}
      [] pattern = "^INV-\\d{4,}$" -> s \in {"INV-1001"}
      [] pattern = "^[+]?[\\d\\s\\-\\(\\)]+$" -> s \in {"100", "900"}
      [] pattern = "^\\d+$" -> s \in {"100", "900"}
      [] pattern = "INV" -> s \in {"INV-1001"}
      [] OTHER -> FALSE

(***************************************************************************)
(* _flatten_dict, _extract_field_data                                      *)
(***************************************************************************)
RECURSIVE _flatten_dict(_, _, _)
_flatten_dict(data, keys, prefix) ==
    IF keys = {} THEN [k \in {} |-> Null]
    ELSE LET key == CHOOSE k \in keys : TRUE
             full_key == IF prefix # "" THEN prefix \o "." \o key ELSE key
             value == data[key]
             flattened == IF IsDict(value)
                          THEN IF "value" \in DOMAIN value.d
                               THEN full_key :> value.d["value"]
                               ELSE _flatten_dict(value.d, DOMAIN value.d, full_key)
                          ELSE full_key :> value
         IN flattened @@ _flatten_dict(data, keys \ {key}, prefix)

\* field_name.startswith('validation_') or field_name in ['raw_text', 'extraction_time']
Skipped(field_name) ==
    field_name \in {"validation_results", "validation_status",
                    "raw_text", "extraction_time"}

Flattened(extracted_data) ==
    IF Falsy(extracted_data) THEN [k \in {} |-> Null]
    ELSE _flatten_dict(extracted_data.d, DOMAIN extracted_data.d, "")

RECURSIVE FieldValues(_, _, _)
FieldValues(documents, field_name, i) ==
    IF i > Len(documents) THEN << >>
    ELSE LET flattened_data == Flattened(documents[i])
         IN (IF field_name \in DOMAIN flattened_data
             THEN << flattened_data[field_name] >> ELSE << >>)
            \o FieldValues(documents, field_name, i + 1)

_extract_field_data(documents) ==
    LET names == UNION {DOMAIN Flattened(documents[i]) : i \in 1..Len(documents)}
    IN [field_name \in {f \in names : ~Skipped(f)} |->
            FieldValues(documents, field_name, 1)]

(***************************************************************************)
(* The analyzers.  Each returns NoPattern (None) or a pattern with its     *)
(* confidence.                                                             *)
(***************************************************************************)
NoPattern == [found |-> FALSE]

\* the branch of the type test a value takes
TypeOf(value) ==
    IF value.t = "str"
    THEN CASE value.s \in {"100", "900"} -> "integer"
           [] value.s \in {"1,500.00"} -> "currency"
           [] OTHER -> "string"
    ELSE IF value.t = "num" THEN "integer"
    ELSE "unknown"

\* the first index at which each distinct key of a sequence of keys occurs
Firsts(keys) == {i \in 1..Len(keys) : \A j \in 1..(i - 1) : keys[j] # keys[i]}

Occurrences(keys, i) == Cardinality({j \in 1..Len(keys) : keys[j] = keys[i]})

\* Counter.most_common(1)[0]: the largest count, the first counted on a tie
MostCommon(keys) ==
    CHOOSE i \in Firsts(keys) :
        \A j \in Firsts(keys) :
            \/ Occurrences(keys, i) > Occurrences(keys, j)
            \/ Occurrences(keys, i) = Occurrences(keys, j) /\ i <= j

_analyze_data_type_patterns(values) ==
    LET types == [i \in 1..Len(values) |-> TypeOf(values[i])]
        best == MostCommon(types)
        confidence == Fraction(Occurrences(types, best), Len(values))
    IN IF AtLeast(confidence, 70)
       THEN [found |-> TRUE, confidence |-> confidence, pattern |-> types[best]]
       ELSE NoPattern

patterns == <<
    [pattern |-> "^[A-Z]{2,3}-\\d{4,}$", name |-> "invoice_number"],
    [pattern |-> "^INV-\\d{4,}$", name |-> "invoice_number_inv"],
    [pattern |-> "^[A-Z]{2}\\d{6}$", name |-> "reference_code"],
    [pattern |-> "^\\d{4}-\\d{2}-\\d{2}$", name |-> "date_iso"],
    [pattern |-> "^\\d{2}/\\d{2}/\\d{4}$", name |-> "date_us"],
    [pattern |-> "^[+]?[\\d\\s\\-\\(\\)]+$", name |-> "phone"],
    [pattern |-> "^[a-zA-Z0-9._%+-]+@[a-zA-Z0-9.-]+\\.[a-zA-Z]{2,}$", name |-> "email"] >>

RECURSIVE BestPattern(_, _, _)
BestPattern(str_values, i, best_pattern) ==
    IF i > Len(patterns) THEN best_pattern
    ELSE LET matches == Cardinality({k \in 1..Len(str_values) :
                                        Matches(patterns[i].pattern, str_values[k])})
             confidence == Fraction(matches, Len(str_values))
             better == IF best_pattern.found
                       THEN confidence.num * best_pattern.confidence.den
                                > best_pattern.confidence.num * confidence.den
                       ELSE confidence.num > 0
         IN IF better /\ AtLeast(confidence, 80)
            THEN BestPattern(str_values, i + 1,
                             [found |-> TRUE, confidence |-> confidence,
                              pattern |-> patterns[i].pattern])
            ELSE BestPattern(str_values, i + 1, best_pattern)

_analyze_regex_patterns(values) ==
    BestPattern([i \in 1..Len(values) |-> PyStr(values[i])], 1, NoPattern)

\* float(re.sub(r'[^\d.-]', '', value)) of a string; ok = FALSE when nothing
\* is left or what is left is no number
Numeric(value) ==
    CASE value.t = "num" -> [ok |-> TRUE, n |-> value.n]
      [] value.t = "str" /\ value.s = "INV-1001" -> [ok |-> TRUE, n |-> 0 - 1001]
      [] value.t = "str" /\ value.s = "100" -> [ok |-> TRUE, n |-> 100]
      [] value.t = "str" /\ value.s = "900" -> [ok |-> TRUE, n |-> 900]
      [] value.t = "str" /\ value.s = "1,500.00" -> [ok |-> TRUE, n |-> 1500]
      [] OTHER -> [ok |-> FALSE, n |-> 0]

RECURSIVE Sum(_, _)
Sum(seq, i) == IF i > Len(seq) THEN 0 ELSE seq[i] + Sum(seq, i + 1)

RECURSIVE NumericValues(_, _)
NumericValues(values, i) ==
    IF i > Len(values) THEN << >>
    ELSE (IF Numeric(values[i]).ok THEN << Numeric(values[i]).n >> ELSE << >>)
         \o NumericValues(values, i + 1)

\* range_min <= v <= range_max for the range mean +- 2 stdev clipped to the
\* observed minimum and maximum: |v - mean| <= 2 stdev, in integers
\* (n v - S)^2 (n - 1) <= 4 sum (n v_i - S)^2
WithinTwoDeviations(numeric_values, v) ==
    LET n == Len(numeric_values)
        S == Sum(numeric_values, 1)
        squares == [i \in 1..n |-> (n * numeric_values[i] - S) * (n * numeric_values[i] - S)]
    IN (n * v - S) * (n * v - S) * (n - 1) <= 4 * Sum(squares, 1)

\* a bound of the range: the observed extreme when it lies within two
\* deviations of the mean, the statistic mean -+ 2 stdev otherwise
Bound(numeric_values, extreme) ==
    IF WithinTwoDeviations(numeric_values, extreme)
    THEN [from |-> "observed", n |-> extreme]
    ELSE [from |-> "deviation", n |-> 0]

_analyze_range_patterns(values) ==
    LET numeric_values == NumericValues(values, 1)
        n == Len(numeric_values)
    IN IF n < 3 THEN NoPattern
       ELSE LET min_val == CHOOSE v \in {numeric_values[i] : i \in 1..n} :
                               \A i \in 1..n : v <= numeric_values[i]
                max_val == CHOOSE v \in {numeric_values[i] : i \in 1..n} :
                               \A i \in 1..n : v >= numeric_values[i]
                values_in_range ==
                    Cardinality({i \in 1..n :
                                    WithinTwoDeviations(numeric_values, numeric_values[i])})
                confidence == Fraction(values_in_range, n)
            IN IF AtLeast(confidence, 80)
               THEN [found |-> TRUE, confidence |-> confidence,
                     pattern |-> [min |-> Bound(numeric_values, min_val),
                                  max |-> Bound(numeric_values, max_val)]]
               ELSE NoPattern

\* list(Counter(...).keys()): the distinct keys in the order first met
RECURSIVE Distinct(_, _)
Distinct(keys, i) ==
    IF i > Len(keys) THEN << >>
    ELSE (IF i \in Firsts(keys) THEN << keys[i] >> ELSE << >>) \o Distinct(keys, i + 1)

_analyze_enum_patterns(values) ==
    LET strs == [i \in 1..Len(values) |-> PyStr(values[i])]
        total_values == Len(values)
        unique_count == Cardinality(Firsts(strs))
        min_occurrences == CHOOSE c \in {Occurrences(strs, i) : i \in Firsts(strs)} :
                               \A i \in Firsts(strs) : c <= Occurrences(strs, i)
    IN IF unique_count <= 10 /\ 10 * unique_count < 3 * total_values
          /\ min_occurrences >= 2
       THEN [found |-> TRUE,
             confidence |-> Fraction(total_values - unique_count, total_values),
             pattern |-> Distinct(strs, 1)]
       ELSE NoPattern

_analyze_cross_reference_patterns(values) == NoPattern

(***************************************************************************)
(* _analyze_field_patterns, _create_rule_suggestion,                       *)
(* analyze_document_patterns                                               *)
(***************************************************************************)
RECURSIVE Clean(_, _)
Clean(field_values, i) ==
    IF i > Len(field_values) THEN << >>
    ELSE (IF field_values[i] # Null /\ field_values[i] # Str("")
          THEN << field_values[i] >> ELSE << >>) \o Clean(field_values, i + 1)

pattern_analyzers == <<"data_type", "regex", "range", "enum", "cross_reference">>

Analyze(pattern_type, values) ==
    CASE pattern_type = "data_type" -> _analyze_data_type_patterns(values)
      [] pattern_type = "regex" -> _analyze_regex_patterns(values)
      [] pattern_type = "range" -> _analyze_range_patterns(values)
      [] pattern_type = "enum" -> _analyze_enum_patterns(values)
      [] OTHER -> _analyze_cross_reference_patterns(values)

\* the analysis of a field: the (pattern_type, pattern) pairs in the order
\* of the analyzers
RECURSIVE FieldAnalysis(_, _)
FieldAnalysis(clean_values, i) ==
    IF i > Len(pattern_analyzers) THEN << >>
    ELSE LET pattern_analysis == Analyze(pattern_analyzers[i], clean_values)
         IN (IF pattern_analysis.found
             THEN << [rule_type |-> pattern_analyzers[i], patterns |-> pattern_analysis] >>
             ELSE << >>) \o FieldAnalysis(clean_values, i + 1)

_analyze_field_patterns(field_values) ==
    LET clean_values == Clean(field_values, 1)
    IN IF clean_values = << >> THEN << >> ELSE FieldAnalysis(clean_values, 1)

Suffix(rule_type) ==
    CASE rule_type = "data_type" -> "_type_check"
      [] rule_type = "regex" -> "_format_check"
      [] rule_type = "range" -> "_range_check"
      [] OTHER -> "_enum_check"

\* the rule types _create_rule_suggestion builds a rule for
Suggestible == {"data_type", "regex", "range", "enum"}

_create_rule_suggestion(field_name, rule_type, found, document_type) ==
    [field_name |-> field_name, rule_type |-> rule_type,
     document_type |-> document_type, confidence |-> found.confidence,
     name |-> field_name \o Suffix(rule_type), rule_pattern |-> found.pattern,
     auto_created |-> TRUE]

\* `if patterns.get('confidence', 0) >= 0.8` in analyze_document_patterns
SuggestionFloor == 80

RECURSIVE Suggestions(_, _, _, _)
Suggestions(field_name, field_analysis, document_type, i) ==
    IF i > Len(field_analysis) THEN << >>
    ELSE LET a == field_analysis[i]
         IN (IF AtLeast(a.patterns.confidence, SuggestionFloor)
                /\ a.rule_type \in Suggestible
             THEN << _create_rule_suggestion(field_name, a.rule_type, a.patterns,
                                             document_type) >>
             ELSE << >>)
            \o Suggestions(field_name, field_analysis, document_type, i + 1)

RECURSIVE AllSuggestions(_, _, _)
AllSuggestions(field_data, names, document_type) ==
    IF names = {} THEN << >>
    ELSE LET field_name == CHOOSE f \in names : TRUE
         IN Suggestions(field_name, _analyze_field_patterns(field_data[field_name]),
                        document_type, 1)
            \o AllSuggestions(field_data, names \ {field_name}, document_type)

min_samples == 5

\* the call with min_samples given; the result has the keys status and
\* suggested_rules (and message, or document_type, analyzed_documents and
\* analysis_results, which nothing of the model reads)
analyze_with(documents, document_type, samples_needed) ==
    IF Len(documents) < samples_needed
    THEN [status |-> "insufficient_data", suggested_rules |-> << >>]
    ELSE LET field_data == _extract_field_data(documents)
         IN [status |-> "success",
             suggested_rules |-> AllSuggestions(field_data, DOMAIN field_data,
                                                document_type)]

analyze_document_patterns(documents, document_type) ==
    analyze_with(documents, document_type, min_samples)

(***************************************************************************)
(* auto_create_validation_rules.  A run is one call; create_rule, its      *)
(* existence check and its create, runs for one suggestion at a time.  The *)
(* check and the create are two statements of create_rule with no          *)
(* transaction around them and no unique constraint under them, so they    *)
(* are two steps here.                                                     *)
(***************************************************************************)
Thresholds == {70, 80, 90, 95}

ValidationRule(name, document_type, field_name, rule_type, rule_pattern) ==
    [name |-> name, document_type |-> document_type, field_name |-> field_name,
     rule_type |-> rule_type, rule_pattern |-> rule_pattern,
     reference_field |-> None, calculation_type |-> None, tolerance |-> None,
     auto_created |-> FALSE, is_active |-> TRUE]

Key(rule) == <<rule.document_type, rule.field_name, rule.rule_type>>

\* ValidationRule.objects.filter(document_type, field_name, rule_type).first()
existing_rule_Never(catalog, rule_data) == FALSE

existing_rule(catalog, rule_data) ==
    \E i \in 1..Len(catalog) : Key(catalog[i]) = Key(rule_data)

new_rule(rule_data) ==
    [ValidationRule(rule_data.name, rule_data.document_type, rule_data.field_name,
                    rule_data.rule_type, rule_data.rule_pattern)
        EXCEPT !.auto_created = TRUE]

RECURSIVE high_confidence_rules(_, _, _)
high_confidence_rules(suggested_rules, confidence_threshold, i) ==
    IF i > Len(suggested_rules) THEN << >>
    ELSE (IF AtLeast(suggested_rules[i].confidence, confidence_threshold)
          THEN << suggested_rules[i] >> ELSE << >>)
         \o high_confidence_rules(suggested_rules, confidence_threshold, i + 1)

Idle == [pc |-> "idle"]

\* what a run returns: its status and the keys of the rules it created
Returned(threshold, status, created_rules) ==
    [op |-> "auto_create", threshold |-> threshold, status |-> status,
     created_rules |-> created_rules]

\* The table has no order of its own: the rows are kept with the rules
\* entered by hand first and the auto-created ones after them, by rule type.
Rank(rule) ==
    IF ~rule.auto_created THEN 0
    ELSE CHOOSE i \in 1..Len(pattern_analyzers) : pattern_analyzers[i] = rule.rule_type

Insert(catalog, rule) ==
    LET before == Cardinality({i \in 1..Len(catalog) : Rank(catalog[i]) <= Rank(rule)})
    IN SubSeq(catalog, 1, before) \o << rule >> \o SubSeq(catalog, before + 1, Len(catalog))

\* Document.objects.filter(...).values(...) has no order_by: the store returns
\* the processed documents in the order it kept them or in another one
Reverse(seq) == [i \in 1..Len(seq) |-> seq[Len(seq) + 1 - i]]

get_documents(stored) == {stored, Reverse(stored)}

AutoCreate(w, confidence_threshold) ==
    /\ runs[w] = Idle
    /\ \E documents \in get_documents(samples) :
       LET analysis == analyze_document_patterns(documents, DocumentType)
           todo == high_confidence_rules(analysis.suggested_rules,
                                         confidence_threshold, 1)
       IN IF analysis.status # "success"
          THEN /\ report' = Returned(confidence_threshold, analysis.status, << >>)
               /\ UNCHANGED runs
          ELSE IF todo = << >>
          THEN /\ report' = Returned(confidence_threshold,
                                     "no_high_confidence_rules", << >>)
               /\ UNCHANGED runs
          ELSE /\ runs' = [runs EXCEPT ![w] =
                              [pc |-> "check", threshold |-> confidence_threshold,
                               todo |-> todo, created_rules |-> << >>]]
               /\ UNCHANGED report
    /\ UNCHANGED <<rules, samples>>
    /\ UNCHANGED wvars

CreateRuleCheck(w) ==
    /\ runs[w].pc = "check"
    /\ runs[w].todo # << >>
    /\ IF existing_rule(rules, Head(runs[w].todo))
       THEN runs' = [runs EXCEPT ![w].todo = Tail(@)]
       ELSE runs' = [runs EXCEPT ![w].pc = "create"]
    /\ UNCHANGED <<rules, samples, report>>
    /\ UNCHANGED wvars

CreateRuleCreate(w) ==
    /\ runs[w].pc = "create"
    /\ rules' = Insert(rules, new_rule(Head(runs[w].todo)))
    /\ runs' = [runs EXCEPT ![w].pc = "check",
                            ![w].todo = Tail(@),
                            ![w].created_rules = Append(@, Key(Head(runs[w].todo)))]
    /\ UNCHANGED <<samples, report>>
    /\ UNCHANGED wvars

AutoCreateReturn(w) ==
    /\ runs[w].pc = "check"
    /\ runs[w].todo = << >>
    /\ report' = Returned(runs[w].threshold, "success", runs[w].created_rules)
    /\ runs' = [runs EXCEPT ![w] = Idle]
    /\ UNCHANGED <<rules, samples>>
    /\ UNCHANGED wvars

(***************************************************************************)
(* auto_pattern_analysis (views.py), run by the processing pipeline after  *)
(* a document became processed: samples are the processed documents of the *)
(* type, the new one among them.                                           *)
(***************************************************************************)
\* mapping.get(key)
Get(mapping, key) == IF key \in DOMAIN mapping THEN mapping[key] ELSE None

count_existing_rules(catalog, document_type) ==
    Cardinality({i \in 1..Len(catalog) :
                    catalog[i].document_type = document_type /\ catalog[i].is_active})

should_analyze(doc_count, existing) ==
    \/ existing = 0 /\ doc_count >= 1
    \/ doc_count \in {3, 5, 10, 20, 50}
    \/ doc_count % 25 = 0

\* max(1, min(doc_count, 5))
smart_min_samples(doc_count) ==
    IF doc_count < 1 THEN 1 ELSE IF doc_count < 5 THEN doc_count ELSE 5

\* 0.7 if doc_count < 5 else 0.8
smart_threshold(doc_count) == IF doc_count < 5 THEN 70 ELSE 80

Learned(outcome) == [op |-> "auto_pattern_analysis", outcome |-> outcome]

auto_pattern_analysis(w) ==
    /\ runs[w] = Idle
    /\ LET doc_count == Len(samples)
           existing == count_existing_rules(rules, DocumentType)
       IN IF ~should_analyze(doc_count, existing)
          THEN /\ report' = Learned("skipped")
               /\ UNCHANGED <<rules, samples, runs>>
               /\ UNCHANGED wvars
          ELSE \E documents \in get_documents(samples) :
                  LET analysis_results ==
                          analyze_with(documents, DocumentType,
                                       smart_min_samples(doc_count))
                  IN IF Get(analysis_results, "patterns") \notin {None, << >>}
                     THEN AutoCreate(w, smart_threshold(doc_count))
                     ELSE /\ report' = Learned("no clear patterns found yet")
                          /\ UNCHANGED <<rules, samples, runs>>
                          /\ UNCHANGED wvars

(***************************************************************************)
(* The documents and the rules the pattern analysis starts from.           *)
(***************************************************************************)
Wrapped(value) == Dict([value |-> value, confidence |-> Str("High")])

Sample(value) == Dict([invoice_id |-> value, raw_text |-> Wrapped(Str("..."))])

\* the values of the field in most of the documents, and in the others
ValuePairs == {
    << Wrapped(Str("INV-1001")), Str("n/a") >>,
    << Num(100), Str("n/a") >>,
    << Wrapped(Str("USD")), Str("n/a") >>,
    << Num(100), Num(900) >> }

\* n documents, the first k with the first value of the pair
Documents(pair, n, k) == [i \in 1..n |-> Sample(IF i <= k THEN pair[1] ELSE pair[2])]

SampleSets ==
    UNION {{Documents(pair, n, k) : pair \in ValuePairs, k \in (n - 3)..n} :
              n \in 4..MaxDocs}

\* rules an administrator entered before
RulePresets == {
    << >>,
    << ValidationRule("invoice id", "invoice", "invoice_id", "regex", "^INV-\\d{4,}$") >>,
    << ValidationRule("receipt id", "receipt", "invoice_id", "regex", "^INV-\\d{4,}$"),
       ValidationRule("invoice total", "invoice", "total", "data_type", "integer") >> }

InitWorkflowIdle ==
    /\ catalogue = {}
    /\ docs = [d \in Docs |-> NewDocument(NoData)]
    /\ execs = << >>
    /\ approvals = << >>
    /\ inflight = {}
    /\ last = Op("init", "", << >>)

\* the sample sets under which several runs are taken at once
ConcurrentSamples ==
    {Documents(<< Wrapped(Str("USD")), Str("n/a") >>, MaxDocs, MaxDocs - 1)}

\* one worker: the runs come one after the other; several: they interleave
InitRules ==
    /\ InitWorkflowIdle
    /\ \/ /\ runs = [w \in {1} |-> Idle]
          /\ rules \in RulePresets
          /\ samples \in SampleSets
       \/ /\ \E workers \in 2..MaxWorkers : runs = [w \in 1..workers |-> Idle]
          /\ rules = << >>
          /\ samples \in ConcurrentSamples
    /\ report = NoReport

NextRules ==
    \/ \E w \in DOMAIN runs, t \in Thresholds : AutoCreate(w, t)
    \/ \E w \in DOMAIN runs : CreateRuleCheck(w)
    \/ \E w \in DOMAIN runs : CreateRuleCreate(w)
    \/ \E w \in DOMAIN runs : AutoCreateReturn(w)
    \/ \E w \in DOMAIN runs : auto_pattern_analysis(w)

SpecRules == InitRules /\ [][NextRules]_vars

(***************************************************************************)
(* Properties of the rule catalog.                                         *)
(***************************************************************************)
\* the runs come one after the other
Sequential == DOMAIN runs = {1}

RulesWith(catalog, key) == {i \in 1..Len(catalog) : Key(catalog[i]) = key}

NoDuplicateKeys(catalog) ==
    \A i, j \in 1..Len(catalog) : Key(catalog[i]) = Key(catalog[j]) => i = j

\* the run that returned last had the threshold of the run under way
SecondRun(w) ==
    /\ runs[w] # Idle
    /\ report.op = "auto_create"
    /\ report.threshold = runs[w].threshold

\* C15: when the runs of auto_create come one after the other over the same
\* documents, a run with the threshold of the run before it creates no rule,
\* and after any number of runs no key (document_type, field_name, rule_type)
\* has two rules.
C15_AutoCreateIdempotent ==
    [][Sequential
       => /\ NoDuplicateKeys(rules')
          /\ \A w \in DOMAIN runs :
                SecondRun(w)
                => /\ ~CreateRuleCreate(w)
                   /\ AutoCreateReturn(w) => report'.created_rules = << >>]_vars

\* a run found every rule it would create in the catalog and created none
C15_Witness ==
    /\ Sequential
    /\ report.op = "auto_create"
    /\ report.status = "success"
    /\ report.created_rules = << >>
    /\ \E i \in 1..Len(rules) : rules[i].auto_created

\* C16: however the existence checks and the creates of several auto_create
\* runs interleave, the catalog never holds two rules with the same
\* (document_type, field_name, rule_type).
C16_NoDuplicateRules == NoDuplicateKeys(rules)

\* what the analyzers accept for the fields of the documents, below the floor
\* of analyze_document_patterns or not
RECURSIVE Accepted(_, _)
Accepted(field_data, names) ==
    IF names = {} THEN {}
    ELSE LET field_name == CHOOSE f \in names : TRUE
             field_analysis == _analyze_field_patterns(field_data[field_name])
         IN {[key |-> <<DocumentType, field_name, field_analysis[i].rule_type>>,
              confidence |-> field_analysis[i].patterns.confidence] :
                i \in 1..Len(field_analysis)}
            \cup Accepted(field_data, names \ {field_name})

AcceptedSuggestions ==
    IF Len(samples) < min_samples THEN {}
    ELSE Accepted(_extract_field_data(samples), DOMAIN _extract_field_data(samples))

Created(created_rules, key) == \E k \in 1..Len(created_rules) : created_rules[k] = key

\* C17: a run of auto_create with threshold t creates the rule of a
\* suggestion an analyzer accepted with confidence c exactly when c >= t and
\* no rule with its key existed, and the rules it creates are auto_created.
C17_CreatesAtThreshold ==
    [][(Sequential /\ report' # report /\ report'.op = "auto_create")
       => \A a \in AcceptedSuggestions :
             LET created == Created(report'.created_rules, a.key)
                 existed == Cardinality(RulesWith(rules', a.key))
                                > (IF created THEN 1 ELSE 0)
             IN /\ created <=> (AtLeast(a.confidence, report'.threshold) /\ ~existed)
                /\ created => \E i \in RulesWith(rules', a.key) : rules'[i].auto_created]_vars

(***************************************************************************)
(* ValidationEngine (validation_service.py).                               *)
(* A number of the extracted data is an amount with two decimals, counted  *)
(* in cents: Num(15000) is the JSON number 150.00.                         *)
(***************************************************************************)
MaxRules == 2
MaxItems == 2

List(l) == [t |-> "list", l |-> l]

\* field_name.split('.') over the field names of the rules
Keys(field_name) ==
    IF field_name = "invoice.total" THEN << "invoice", "total" >> ELSE << field_name >>

\* value[key] with the {value, confidence} structure unwrapped, key after key
RECURSIVE Descend(_, _)
Descend(value, keys) ==
    IF keys = << >> THEN value
    ELSE IF IsDict(value) /\ Head(keys) \in DOMAIN value.d
    THEN LET field_data == value.d[Head(keys)]
         IN Descend(IF Has(field_data, "value") THEN field_data.d.value ELSE field_data,
                    Tail(keys))
    ELSE Null

_get_field_value(extracted_data, field_name) ==
    IF Falsy(extracted_data) THEN Null
    ELSE Descend(extracted_data, Keys(field_name))

\* what a validator gives back: (is_valid, error_message), or an exception
Valid == [passed |-> TRUE, error |-> "", raised |-> FALSE]
Invalid(error_message) == [passed |-> FALSE, error |-> error_message, raised |-> FALSE]
Raised(exception) == [passed |-> FALSE, error |-> exception, raised |-> TRUE]

\* str(value) of the scalars of the model; a list or a mapping prints as
\* a text that no pattern and no enumeration of the model contains
str(value) ==
    CASE value.t = "str" -> value.s
      [] value.t = "num" /\ value.n = 15000 -> "150.0"
      [] value.t = "num" /\ value.n = 14999 -> "149.99"
      [] value.t = "num" /\ value.n = 200 -> "2.0"
      [] OTHER -> "[...]"

\* re.compile accepts the pattern
Compiles(pattern) == pattern # "["

_validate_regex(value, pattern, rule) ==
    IF value = Null THEN Invalid("is missing but required for regex validation")
    ELSE IF ~Compiles(pattern) THEN Invalid("Invalid regex pattern in rule")
    ELSE IF Matches(pattern, str(value)) THEN Valid
    ELSE Invalid("does not match required pattern")

\* the type validators over the values of the model: no string of the model
\* is a digit string, a float literal, a date, an email, a phone number or
\* a boolean word, and "$150.00" is the one that reads as a currency amount
type_validators == {"string", "integer", "float", "number", "currency", "date",
                    "email", "phone", "boolean"}

IsOfType(x, expected_type) ==
    CASE expected_type = "string" -> x.t = "str"
      [] expected_type \in {"float", "number"} -> x.t = "num"
      [] expected_type = "currency" -> x.t = "num" \/ (x.t = "str" /\ x.s = "$150.00")
      [] OTHER -> FALSE

_validate_data_type(value, expected_type, rule) ==
    IF value = Null THEN Invalid("is missing but required for data type validation")
    ELSE IF expected_type \notin type_validators THEN Invalid("Unknown data type")
    ELSE IF IsOfType(value, expected_type) THEN Valid
    ELSE Invalid("is not of expected type")

_validate_required(value, pattern, rule) ==
    IF value = Null \/ value = Str("") THEN Invalid("is missing or empty") ELSE Valid

\* float(x) of a value in cents: a number converts, no string of the model
\* parses (ValueError), a list or a mapping is a TypeError
ToFloat(value) ==
    CASE value.t = "num" -> [ok |-> TRUE, n |-> value.n, exception |-> ""]
      [] value.t = "str" -> [ok |-> FALSE, n |-> 0, exception |-> "ValueError"]
      [] OTHER -> [ok |-> FALSE, n |-> 0, exception |-> "TypeError"]

\* 'min,max' of a range rule, in cents
RangeSpec(range_spec) ==
    CASE range_spec = "100,200" -> [format |-> TRUE, numeric |-> TRUE, min |-> 10000, max |-> 20000]
      [] range_spec = "0,100" -> [format |-> TRUE, numeric |-> TRUE, min |-> 0, max |-> 10000]
      [] range_spec = "low,high" -> [format |-> TRUE, numeric |-> FALSE, min |-> 0, max |-> 0]
      [] OTHER -> [format |-> FALSE, numeric |-> FALSE, min |-> 0, max |-> 0]

_validate_range(value, range_spec, rule) ==
    IF value = Null THEN Invalid("is missing but required for range validation")
    ELSE IF ~RangeSpec(range_spec).format THEN Invalid("Invalid range format in rule")
    ELSE IF ~RangeSpec(range_spec).numeric
    THEN Invalid("Invalid numeric value for range validation in rule")
    ELSE IF ToFloat(value).exception = "ValueError"
    THEN Invalid("Invalid numeric value for range validation in rule")
    ELSE IF ToFloat(value).exception = "TypeError" THEN Raised("TypeError")
    ELSE IF RangeSpec(range_spec).min <= ToFloat(value).n
            /\ ToFloat(value).n <= RangeSpec(range_spec).max
    THEN Valid
    ELSE Invalid("is outside valid range")

\* [v.strip() for v in allowed_values.split(',')]
allowed_list(allowed_values) ==
    CASE allowed_values = "INV-1001,INV-1002" -> {"INV-1001", "INV-1002"}
      [] allowed_values = "USD, EUR" -> {"USD", "EUR"}
      [] OTHER -> {allowed_values}

_validate_enum(value, allowed_values, rule) ==
    IF value = Null THEN Invalid("is missing but required for enumeration validation")
    ELSE IF str(value) \in allowed_list(allowed_values) THEN Valid
    ELSE Invalid("is not in allowed values")

(***************************************************************************)
(* _validate_cross_reference, _validate_calculation                        *)
(***************************************************************************)
\* a DecimalField value is kept by its text; Decimal('0.00') is falsy
Truthy(x) == x # None /\ x # "" /\ x # "0.00"

\* float(rule.tolerance), in cents
Cents(tolerance) ==
    CASE tolerance = "0.00" -> 0
      [] tolerance = "0.01" -> 1
      [] tolerance = "0.02" -> 2

RECURSIVE _extract_numeric_value(_)
_extract_numeric_value(value) ==
    CASE value.t = "num" -> [ok |-> TRUE, n |-> value.n]
      [] value.t = "str" /\ value.s = "$150.00" -> [ok |-> TRUE, n |-> 15000]
      [] Has(value, "value") -> _extract_numeric_value(value.d.value)
      [] OTHER -> [ok |-> FALSE, n |-> 0]

\* the fields of a line item that are looked at first, in this order
common_fields == << "amount", "total", "price", "value", "cost" >>

\* numeric_values.append(self._extract_numeric_value(...)): an exception
\* leaves the loop (ok = FALSE)
Appended(found) ==
    [ok |-> found.ok, values |-> IF found.ok THEN << found.n >> ELSE << >>]

\* the same under try / except: continue
Tried(found) ==
    [ok |-> TRUE, values |-> IF found.ok THEN << found.n >> ELSE << >>]

\* the common fields a line item has, and its fields that convert to a number
Common(item) == {i \in 1..Len(common_fields) : common_fields[i] \in DOMAIN item.d}
Convertible(item) == {k \in DOMAIN item.d : _extract_numeric_value(item.d[k]).ok}

\* the numeric value a line item contributes: that of the first common field
\* it has, else that of a field that converts (the items of the model have
\* at most one), else nothing
ItemValues(item) ==
    IF ~IsDict(item) THEN Tried(_extract_numeric_value(item))
    ELSE IF Common(item) # {}
    THEN Appended(_extract_numeric_value(
             item.d[common_fields[CHOOSE i \in Common(item) : \A j \in Common(item) : i <= j]]))
    ELSE IF Convertible(item) # {}
    THEN Tried(_extract_numeric_value(item.d[CHOOSE k \in Convertible(item) : TRUE]))
    ELSE [ok |-> TRUE, values |-> << >>]

Extend(item, rest) == [ok |-> item.ok /\ rest.ok, values |-> item.values \o rest.values]

RECURSIVE numeric_values(_, _)
numeric_values(reference_data, i) ==
    IF i > Len(reference_data) THEN [ok |-> TRUE, values |-> << >>]
    ELSE Extend(ItemValues(reference_data[i]), numeric_values(reference_data, i + 1))

Least(seq) == CHOOSE x \in {seq[i] : i \in 1..Len(seq)} : \A i \in 1..Len(seq) : x <= seq[i]
Greatest(seq) == CHOOSE x \in {seq[i] : i \in 1..Len(seq)} : \A i \in 1..Len(seq) : x >= seq[i]

calculation_types == {"sum", "average", "count", "min", "max"}

\* the aggregate in cents as the fraction num / den; count 2 is the amount 2.00
Aggregate(values, calc_type) ==
    CASE calc_type = "sum" -> Fraction(Sum(values, 1), 1)
      [] calc_type = "average" -> Fraction(Sum(values, 1), Len(values))
      [] calc_type = "count" -> Fraction(100 * Len(values), 1)
      [] calc_type = "min" -> Fraction(Least(values), 1)
      [] calc_type = "max" -> Fraction(Greatest(values), 1)

\* ok = FALSE is a ValueError
Single(found) == [ok |-> found.ok, value |-> Fraction(found.n, 1)]

Calculated(found, calc_type) ==
    IF ~found.ok \/ found.values = << >> \/ calc_type \notin calculation_types
    THEN [ok |-> FALSE, value |-> Fraction(0, 1)]
    ELSE [ok |-> TRUE, value |-> Aggregate(found.values, calc_type)]

_calculate_reference_value(reference_data, calc_type, rule) ==
    IF reference_data.t # "list" THEN Single(_extract_numeric_value(reference_data))
    ELSE Calculated(numeric_values(reference_data.l, 1), calc_type)

\* The amounts are binary floating point numbers. Over the amounts of the
\* model abs(main_value - calculated_value) is the exact difference except
\* for 150.0 - 149.98 = 0.020000000000010232 and
\* 149.99 - 149.98 = 0.010000000000019327, which exceed 0.02 and 0.01.
RoundsOver(main_value, calculated_value) ==
    /\ calculated_value = Fraction(14998, 1)
    /\ main_value \in {15000, 14999}

Abs(x) == IF x < 0 THEN 0 - x ELSE x

\* difference <= tolerance
WithinTolerance(main_value, calculated_value, tolerance) ==
    LET difference == Abs(main_value * calculated_value.den - calculated_value.num)
    IN \/ difference < tolerance * calculated_value.den
       \/ /\ difference = tolerance * calculated_value.den
          /\ ~RoundsOver(main_value, calculated_value)

DefaultTolerance == 1

\* the try block of _validate_cross_reference
Compared(calculated_value, main_value, tolerance) ==
    IF ~calculated_value.ok \/ ~main_value.ok
    THEN Invalid("Error in cross-reference validation")
    ELSE IF WithinTolerance(main_value.n, calculated_value.value, tolerance) THEN Valid
    ELSE Invalid("does not match calculated")

Referenced(value, rule, reference_value) ==
    IF reference_value = Null THEN Invalid("Reference field is missing")
    ELSE Compared(_calculate_reference_value(
                      reference_value,
                      IF Truthy(rule.calculation_type) THEN rule.calculation_type ELSE "sum",
                      rule),
                  _extract_numeric_value(value),
                  IF Truthy(rule.tolerance) THEN Cents(rule.tolerance) ELSE DefaultTolerance)

_validate_cross_reference(value, pattern, rule, current_extracted_data) ==
    IF value = Null THEN Invalid("is missing but required for cross-reference validation")
    ELSE IF ~Truthy(rule.reference_field)
    THEN Invalid("Cross-reference validation requires a reference_field")
    ELSE Referenced(value, rule,
                    _get_field_value(current_extracted_data, rule.reference_field))

_validate_calculation_Unchecked(value, pattern, rule, current_extracted_data) ==
    IF value = Null THEN Invalid("is missing but required for calculation validation")
    ELSE Valid

_validate_calculation(value, pattern, rule, current_extracted_data) ==
    IF value = Null THEN Invalid("is missing but required for calculation validation")
    ELSE IF ~Truthy(rule.reference_field)
    THEN Invalid("Calculation validation requires a reference_field")
    ELSE _validate_cross_reference(value, pattern, rule, current_extracted_data)

(***************************************************************************)
(* _apply_validation_rule, validate_document_data                          *)
(***************************************************************************)
rule_validators == {"regex", "data_type", "required", "range", "enum",
                    "cross_reference", "calculation"}

validator_func(rule_type, field_value, rule, extracted_data) ==
    CASE rule_type = "regex" -> _validate_regex(field_value, rule.rule_pattern, rule)
      [] rule_type = "data_type" -> _validate_data_type(field_value, rule.rule_pattern, rule)
      [] rule_type = "required" -> _validate_required(field_value, rule.rule_pattern, rule)
      [] rule_type = "range" -> _validate_range(field_value, rule.rule_pattern, rule)
      [] rule_type = "enum" -> _validate_enum(field_value, rule.rule_pattern, rule)
      [] rule_type = "cross_reference" ->
            _validate_cross_reference(field_value, rule.rule_pattern, rule, extracted_data)
      [] rule_type = "calculation" ->
            _validate_calculation(field_value, rule.rule_pattern, rule, extracted_data)

\* raised: the exception that left _apply_validation_rule, "" when none did
field_result(rule, passed, errors, value, raised) ==
    [rule_name |-> rule.name, field_name |-> rule.field_name,
     rule_type |-> rule.rule_type, passed |-> passed, errors |-> errors,
     value |-> value, raised |-> raised]

\* try: validator_func(...) except Exception, and without the except
Caught_Never(rule, field_value, outcome) ==
    field_result(rule, outcome.passed,
                 IF ~outcome.passed /\ outcome.error # "" /\ ~outcome.raised
                 THEN << outcome.error >> ELSE << >>,
                 field_value, IF outcome.raised THEN outcome.error ELSE "")

Caught(rule, field_value, outcome) ==
    IF outcome.raised
    THEN field_result(rule, FALSE, << "Validation error for rule" >>, field_value, "")
    ELSE field_result(rule, outcome.passed,
                      IF ~outcome.passed /\ outcome.error # ""
                      THEN << outcome.error >> ELSE << >>,
                      field_value, "")

Applied(extracted_data, rule, field_value) ==
    IF rule.rule_type \notin rule_validators
    THEN field_result(rule, FALSE, << "Unknown rule type" >>, field_value, "")
    ELSE Caught(rule, field_value,
                validator_func(rule.rule_type, field_value, rule, extracted_data))

_apply_validation_rule(extracted_data, rule) ==
    Applied(extracted_data, rule, _get_field_value(extracted_data, rule.field_name))

\* order_by('field_name'): the field names of the model in byte order; rules
\* on one field keep the order of the table
field_names == << "invoice.total", "invoice_id", "line_items", "total" >>

RECURSIVE OrderBy(_, _)
OrderBy(catalog, i) ==
    IF i > Len(field_names) THEN << >>
    ELSE SelectSeq(catalog, LAMBDA rule : rule.field_name = field_names[i])
         \o OrderBy(catalog, i + 1)

get_validation_rules(catalog, doc_type) ==
    OrderBy(SelectSeq(catalog,
                      LAMBDA rule : rule.document_type = doc_type /\ rule.is_active), 1)

RECURSIVE Errors(_, _)
Errors(results, i) ==
    IF i > Len(results) THEN << >>
    ELSE (IF results[i].passed THEN << >> ELSE results[i].errors) \o Errors(results, i + 1)

\* extracted_data.copy(): mappings and lists have it
Copies(extracted_data) == extracted_data.t \in {"dict", "list"}

\* the report of a call that raised
Exception(document_type, exception) ==
    [op |-> "validate", document_type |-> document_type, raised |-> exception,
     status |-> "", total_rules |-> 0, passed_rules |-> 0, failed_rules |-> 0,
     errors |-> << >>, warnings |-> << >>, field_validations |-> << >>]

\* validation_results after the loop over the rules
Results(document_type, validation_rules, results) ==
    LET passed_rules == Cardinality({i \in 1..Len(results) : results[i].passed})
        failed_rules == Cardinality({i \in 1..Len(results) : ~results[i].passed})
        fields == {validation_rules[i].field_name : i \in 1..Len(validation_rules)}
        latest(f) == CHOOSE i \in 1..Len(results) :
                        /\ results[i].field_name = f
                        /\ \A j \in (i + 1)..Len(results) : results[j].field_name # f
    IN [op |-> "validate", document_type |-> document_type, raised |-> "",
        status |-> IF validation_rules = << >> THEN "no_rules"
                   ELSE IF failed_rules > 0 THEN "failed" ELSE "passed",
        total_rules |-> Len(validation_rules),
        passed_rules |-> passed_rules, failed_rules |-> failed_rules,
        errors |-> Errors(results, 1),
        warnings |-> IF validation_rules = << >>
                     THEN << "No validation rules found" >> ELSE << >>,
        field_validations |-> [f \in fields |-> results[latest(f)]]]

\* the loop over the rules: the first exception leaves it
Looped(document_type, validation_rules, results) ==
    IF \E i \in 1..Len(results) : results[i].raised # ""
    THEN Exception(document_type,
                   results[CHOOSE i \in 1..Len(results) :
                              /\ results[i].raised # ""
                              /\ \A j \in 1..(i - 1) : results[j].raised = ""].raised)
    ELSE Results(document_type, validation_rules, results)

Ruled(extracted_data, document_type, validation_rules) ==
    Looped(document_type, validation_rules,
           [i \in 1..Len(validation_rules) |->
               _apply_validation_rule(extracted_data, validation_rules[i])])

validate_document_data(extracted_data, document_type, catalog) ==
    IF ~Copies(extracted_data) THEN Exception(document_type, "AttributeError")
    ELSE Ruled(extracted_data, document_type, get_validation_rules(catalog, document_type))

DocumentTypes == {"invoice", "receipt"}

\* validate(extracted_data, document_type) of the one document of samples
Validate(document_type) ==
    /\ runs = << >>
    /\ Len(samples) = 1
    /\ report' = validate_document_data(samples[1], document_type, rules)
    /\ UNCHANGED <<rules, samples, runs>>
    /\ UNCHANGED wvars

(***************************************************************************)
(* The rules and the extracted data the validation starts from.            *)
(***************************************************************************)
\* the sequences of at most n elements of S
SeqsUpTo(S, n) == UNION {[1..k -> S] : k \in 0..n}

CrossRule(name, rule_type, reference_field, calculation_type, tolerance) ==
    [ValidationRule(name, "invoice", "total", rule_type, "") EXCEPT
        !.reference_field = reference_field,
        !.calculation_type = calculation_type,
        !.tolerance = tolerance]

\* rules as an administrator writes them, the faulty ones included: a regex
\* that does not compile, an unknown data type, an unknown rule type, an
\* unknown calculation type, a range rule on a list
RulePool == {
    ValidationRule("invoice id", "invoice", "invoice_id", "regex", "^INV-\\d{4,}$"),
    ValidationRule("broken regex", "invoice", "invoice_id", "regex", "["),
    ValidationRule("id is text", "invoice", "invoice_id", "data_type", "string"),
    ValidationRule("total is money", "invoice", "total", "data_type", "money"),
    ValidationRule("total is currency", "invoice", "total", "data_type", "currency"),
    ValidationRule("nested total", "invoice", "invoice.total", "required", ""),
    ValidationRule("total range", "invoice", "total", "range", "100,200"),
    ValidationRule("items range", "invoice", "line_items", "range", "100,200"),
    ValidationRule("known ids", "invoice", "invoice_id", "enum", "INV-1001,INV-1002"),
    ValidationRule("checksum", "invoice", "total", "checksum", ""),
    CrossRule("median", "cross_reference", "line_items", "median", None),
    CrossRule("items add up", "calculation", "line_items", "sum", "0.01"),
    [ValidationRule("switched off", "invoice", "total", "required", "")
        EXCEPT !.is_active = FALSE],
    ValidationRule("receipt id", "receipt", "invoice_id", "regex", "^INV-\\d{4,}$") }

Amount(n) == Dict([amount |-> Num(n)])

ValidationData == {
    Dict(<< >>),
    Dict([invoice_id |-> Str("INV-1001"), total |-> Wrapped(Num(15000)),
          line_items |-> List(<< Amount(10000), Amount(5000) >>),
          invoice |-> Dict([total |-> Num(15000)])]),
    Dict([invoice_id |-> Str("INV-1002"), total |-> Wrapped(Num(15000)),
          invoice |-> Wrapped(Dict([total |-> Num(15000)]))]),
    Dict([invoice_id |-> Str("n/a"), total |-> Str("n/a"), line_items |-> List(<< >>)]),
    Dict([invoice_id |-> Str(""), total |-> Str("$150.00"), line_items |-> Num(15000)]) }

\* one cross_reference or calculation rule on total, with every calculation
\* type and every tolerance
Tolerances == {None, "0.00", "0.01", "0.02"}

CrossRules ==
    {CrossRule("totals", rule_type, "line_items", calculation_type, tolerance) :
        rule_type \in {"cross_reference", "calculation"},
        calculation_type \in calculation_types \cup {None, "median"},
        tolerance \in Tolerances}
    \cup {CrossRule("totals", rule_type, None, "sum", "0.01") :
            rule_type \in {"cross_reference", "calculation"}}

\* line items: an amount, a price with a cost, no number at all, an amount
\* that is not a number
Items == {
    Amount(10000), Amount(5000), Amount(4998),
    Dict([price |-> Num(5000), cost |-> Num(100)]),
    Dict([description |-> Str("freight")]),
    Dict([amount |-> Str("n/a")]) }

Totals == {Num(15000), Wrapped(Num(14999)), Num(200), Str("n/a")}

References == {Num(15000)} \cup {List(l) : l \in SeqsUpTo(Items, MaxItems)}

CrossData ==
    {Dict([total |-> total, line_items |-> reference]) :
        total \in Totals, reference \in References}
    \cup {Dict([total |-> total]) : total \in Totals}
    \cup {Dict([line_items |-> reference]) : reference \in References}

InitValidate ==
    /\ InitWorkflowIdle
    /\ runs = << >>
    /\ report = NoReport
    /\ \/ /\ rules \in SeqsUpTo(RulePool, MaxRules)
          /\ \E data \in ValidationData : samples = << data >>
       \/ /\ \E rule \in CrossRules : rules = << rule >>
          /\ \E data \in CrossData : samples = << data >>

NextValidate == \E document_type \in DocumentTypes : Validate(document_type)

SpecValidate == InitValidate /\ [][NextValidate]_vars

(***************************************************************************)
(* Properties of the validation.                                           *)
(***************************************************************************)
\* the document validated and the report of its validation
extracted_data == samples[1]
Validated == report.op = "validate"

ActiveRules(document_type) ==
    {i \in 1..Len(rules) : rules[i].document_type = document_type /\ rules[i].is_active}

\* the evaluation of the rule on the data meets an error of the rule's author:
\* an unknown rule type, a regex that does not compile matched against a value,
\* an unknown calculation type asked to aggregate a list
AuthoringError(rule, data) ==
    \/ rule.rule_type \notin rule_validators
    \/ /\ rule.rule_type = "regex"
       /\ ~Compiles(rule.rule_pattern)
       /\ _get_field_value(data, rule.field_name) # Null
    \/ /\ rule.rule_type \in {"cross_reference", "calculation"}
       /\ Truthy(rule.calculation_type)
       /\ rule.calculation_type \notin calculation_types
       /\ _get_field_value(data, rule.field_name) # Null
       /\ Truthy(rule.reference_field)
       /\ _get_field_value(data, rule.reference_field).t = "list"

WellWritten == SelectSeq(rules, LAMBDA rule : ~AuthoringError(rule, extracted_data))

ItemAmount(item) ==
    item.d[common_fields[CHOOSE i \in Common(item) : \A j \in Common(item) : i <= j]]

\* a cross_reference rule alone, on a numeric value against a list of line
\* items that each hold a number in a common field, with a known calculation
CrossReferenceCase ==
    /\ Validated
    /\ Len(rules) = 1
    /\ report.total_rules = 1
    /\ rules[1].rule_type = "cross_reference"
    /\ rules[1].reference_field = "line_items"
    /\ rules[1].calculation_type \in calculation_types \cup {None}
    /\ Has(extracted_data, "total") /\ Has(extracted_data, "line_items")
    /\ _get_field_value(extracted_data, "total").t = "num"
    /\ extracted_data.d.line_items.t = "list"
    /\ extracted_data.d.line_items.l # << >>
    /\ \A i \in 1..Len(extracted_data.d.line_items.l) :
          /\ Common(extracted_data.d.line_items.l[i]) # {}
          /\ ItemAmount(extracted_data.d.line_items.l[i]).t = "num"

\* C19: a cross_reference rule passes exactly when |field_value - aggregate|
\* <= tolerance, the aggregate being calculation_type (sum when none is set)
\* over the first common field of each line item and the tolerance the one of
\* the rule, 0 included, and 0.01 (one cent) when the rule sets none.
C19_CrossReferenceWithinTolerance ==
    CrossReferenceCase
    => LET items == extracted_data.d.line_items.l
           values == [i \in 1..Len(items) |-> ItemAmount(items[i]).n]
           aggregate == Aggregate(values, IF rules[1].calculation_type = None THEN "sum"
                                          ELSE rules[1].calculation_type)
           tolerance == IF rules[1].tolerance = None THEN 1 ELSE Cents(rules[1].tolerance)
           field_value == _get_field_value(extracted_data, "total").n
       IN report.passed_rules = 1
          <=> Abs(field_value * aggregate.den - aggregate.num) <= tolerance * aggregate.den

\* the same rule under the other one of the two rule types
Alias(rule) ==
    [rule EXCEPT !.rule_type = IF @ = "calculation" THEN "cross_reference" ELSE "calculation"]

\* C20: a calculation rule and a cross_reference rule with the same field,
\* reference field, calculation type and tolerance give the same pass / fail
\* outcome on every data.
C20_CalculationIsAlias ==
    (/\ Validated
     /\ Len(rules) = 1
     /\ rules[1].rule_type \in {"cross_reference", "calculation"})
    => report.passed_rules
         = validate_document_data(extracted_data, report.document_type,
                                  << Alias(rules[1]) >>).passed_rules

\* a calculation rule passed on a total against the sum of its two line items
C20_Witness ==
    /\ Validated
    /\ Len(rules) = 1
    /\ rules[1].rule_type = "calculation"
    /\ Has(extracted_data, "line_items")
    /\ extracted_data.d.line_items.t = "list"
    /\ Len(extracted_data.d.line_items.l) = 2
    /\ rules[1].calculation_type = "sum"
    /\ report.passed_rules = 1

(***************************************************************************)
(* Reproducibility of the pattern induction.                               *)
(***************************************************************************)
\* the rule is among the rules the analysis of the documents suggests
Suggested(documents, rule_data) ==
    \E i \in 1..Len(analyze_document_patterns(documents, DocumentType).suggested_rules) :
        analyze_document_patterns(documents, DocumentType).suggested_rules[i] = rule_data

\* C21: the rule a run creates is the rule (field_name, rule_type,
\* rule_pattern, confidence) that the analysis of the same processed documents
\* suggests in whatever order the store returns them.
C21_AnalysisReproducible ==
    [][\A w \in DOMAIN runs :
          CreateRuleCreate(w)
          => \A documents \in get_documents(samples) :
                Suggested(documents, Head(runs[w].todo))]_vars

(***************************************************************************)
(* The approval step, the skipped step.                                    *)
(***************************************************************************)
\* the execution that ran the approval step which created approval a: the one
\* whose pending_approvals ends with a after the handler
ParkedBy(a) ==
    {e \in 1..Len(execs') :
        /\ execs'[e].pending_approvals # << >>
        /\ execs'[e].pending_approvals[Len(execs'[e].pending_approvals)] = a
        /\ (e \in Execs => execs[e].pending_approvals # execs'[e].pending_approvals)}

\* what _execute_approval_step leaves behind, the status of the execution apart
ApprovalRecorded(a, e) ==
    LET approval == approvals'[a]
        x == execs'[e]
    IN /\ x.current_step # 0
       /\ StepsOf(x)[x.current_step].step_type = "approval"
       /\ approval.document = x.document
       /\ approval.workflow = x.workflow
       /\ approval.workflow_step = x.current_step
       /\ approval.status = "pending"
       /\ approval.approval_level = DefaultApprovalLevel
       /\ approval.approver # None
       /\ approval.approver = ResolveApprover(StepsOf(x)[x.current_step],
                                              DefaultApprovalLevel)
       /\ docs'[x.document].workflow_status = "pending"
       /\ docs'[x.document].current_approver = approval.approver

\* a handler ran an approval step whose approver resolved
ApprovalStepRan == Len(approvals') > Len(approvals)

\* C22: when an approval step executes with a resolvable approver, exactly one
\* DocumentApproval is new, pending, for the document and the step, at level 1
\* with the resolved approver; the document is pending with that approver; the
\* execution is in_progress at this step and holds the approval's id.
C22_ApprovalStepParks ==
    [][ApprovalStepRan =>
          /\ Len(approvals') = Len(approvals) + 1
          /\ \A a \in Approvals : approvals'[a] = approvals[a]
          /\ Cardinality(ParkedBy(Len(approvals'))) = 1
          /\ \A e \in ParkedBy(Len(approvals')) :
                /\ ApprovalRecorded(Len(approvals'), e)
                /\ execs'[e].status = "in_progress"]_vars

\* what the execution had before the handler ran (nothing, when it is new)
RanBefore(e) == IF e \in Execs THEN execs[e].ran ELSE << >>

SkipsBefore(e) == IF e \in Execs THEN execs[e].steps_skipped ELSE 0

ResultsBefore(e) == IF e \in Execs THEN execs[e].integration_results ELSE << >>

\* the steps the handler dispatched for execution e, as positions in its history
RanNow(e) == (Len(RanBefore(e)) + 1)..Len(execs'[e].ran)

SkippedNow(e) == {k \in RanNow(e) : execs'[e].ran[k].kind = "skipped"}

\* the step of the k-th entry of the history of execution row x
StepRan(x, k) == StepsOf(x)[StepAt(x.workflow, x.ran[k].order)]

ConditionFalse(x, k) ==
    ~_check_step_conditions(docs[x.document].extracted_data, StepRan(x, k))

\* after the skipped step comes the step of the next order, or completion
Proceeds(x, k) ==
    IF StepAt(x.workflow, x.ran[k].order + 1) # 0
    THEN /\ k < Len(x.ran)
         /\ x.ran[k + 1].order = x.ran[k].order + 1
    ELSE /\ k = Len(x.ran)
         /\ x.status = "completed"

\* no approval of the handler is one for the skipped step
NoApprovalFor(x, k) ==
    \A a \in (Len(approvals) + 1)..Len(approvals') :
        ~ /\ approvals'[a].document = x.document
          /\ approvals'[a].workflow = x.workflow
          /\ approvals'[a].workflow_step = StepAt(x.workflow, x.ran[k].order)

\* the document is as the steps that were not skipped and the completion leave it
DocumentAsWithout(e) ==
    LET x == execs'[e]
        latest == x.ran[Len(x.ran)]
        d == x.document
    IN IF x.status = "completed"
       THEN docs'[d].workflow_status = "approved" /\ docs'[d].current_approver = None
       ELSE IF latest.kind = "approval" /\ ~Unresolved(x)
            THEN /\ docs'[d].workflow_status = "pending"
                 /\ docs'[d].current_approver =
                       ResolveApprover(StepsOf(x)[x.current_step], DefaultApprovalLevel)
            ELSE docs'[d] = docs[d]

C24_SameFieldResolution ==
    Validated =>
        \A i \in 1..Len(rules) :
            _get_document_field_value(extracted_data, Keys(rules[i].field_name))
                = _get_field_value(extracted_data, rules[i].field_name)

(***************************************************************************)
(* The numeric coercions of the rule types.                                *)
(***************************************************************************)
\* the rule reads its field's value as a number
NumericRule(rule) ==
    \/ rule.rule_type \in {"range", "cross_reference", "calculation"}
    \/ rule.rule_type = "data_type" /\ rule.rule_pattern = "currency"

\* the currency check (_is_valid_currency), the range rule (float(value)) and
\* the cross_reference / calculation rule (_extract_numeric_value) take the value
\* for the same number, or none of them takes it for a number
Uniform(value) ==
    /\ IsOfType(value, "currency") <=> ToFloat(value).ok
    /\ ToFloat(value).ok <=> _extract_numeric_value(value).ok
    /\ ToFloat(value).ok => ToFloat(value).n = _extract_numeric_value(value).n

\* C25: the value of a field that a data_type currency rule, a range rule or a
\* cross_reference / calculation rule of the validated document reads is
\* accepted as numeric and read as the same number by all three coercions,
\* or rejected by all three.
C25_UniformCoercion ==
    Validated =>
        \A i \in ActiveRules(report.document_type) :
            NumericRule(rules[i])
            => LET value == _get_field_value(extracted_data, rules[i].field_name)
               IN value # Null => Uniform(value)

(***************************************************************************)
(* IntegrationService.send_to_external_system (integration_service.py).    *)
(* A top-level call and the calls it makes of itself are one entry of      *)
(* runs: pc is where the chain stands, retry_count the argument of its     *)
(* innermost call, invoked the number of times the integration method was  *)
(* called, waits the seconds slept, audit the status of the                *)
(* IntegrationAuditLog row of each call.  report holds the status of the   *)
(* IntegrationConfiguration the calls share.                               *)
(***************************************************************************)
MaxCalls == 2

\* the keys of supported_integrations, and a type that is not among them
supported_integrations == {"sap_erp", "salesforce", "ms_dynamics", "quickbooks",
                           "custom_api", "webhook", "database"}
IntegrationTypes == {"webhook", "database", "ftp"}

\* what the integration method does when awaited: it returns its result, or it
\* raises (a response other than 200, a timeout of the request after 30 s);
\* the database method only returns
Attempts(integration_type) ==
    IF integration_type = "database" THEN {"success"} ELSE {"success", "raise"}

NoCall == [pc |-> "idle"]

Call(integration_type) ==
    [pc |-> "try", integration_type |-> integration_type, retry_count |-> 0,
     invoked |-> 0, waits |-> << >>, audit |-> << "pending" >>, status |-> None]

\* `if retry_count < 3`
MaxRetries == 3

CanRetry_Inclusive(retry_count) == retry_count <= MaxRetries

CanRetry(retry_count) == retry_count < MaxRetries

\* asyncio.sleep(2 ** retry_count)
Backoff(retry_count) == 2 ^ retry_count

Configuration(status) == [op |-> "send", status |-> status]

\* the outermost call: the audit row is saved as pending, the try block begins
Send(c, integration_type) ==
    /\ runs[c] = NoCall
    /\ runs' = [runs EXCEPT ![c] = Call(integration_type)]
    /\ UNCHANGED <<rules, samples, report>>
    /\ UNCHANGED wvars

LastAudit(call, status) == [call.audit EXCEPT ![Len(call.audit)] = status]

\* the try block of the innermost call and its except clause
Attempt(c, outcome) ==
    /\ runs[c].pc = "try"
    /\ outcome \in Attempts(runs[c].integration_type)
    /\ LET call == runs[c]
           supported == call.integration_type \in supported_integrations
           invoked == IF supported THEN call.invoked + 1 ELSE call.invoked
       IN IF supported /\ outcome = "success"
          THEN /\ runs' = [runs EXCEPT ![c] =
                              [call EXCEPT !.pc = "done", !.invoked = invoked,
                                           !.audit = LastAudit(call, "success"),
                                           !.status = "success"]]
               /\ report' = Configuration("active")
          ELSE /\ report' = Configuration("error")
               /\ IF CanRetry(call.retry_count)
                  THEN runs' = [runs EXCEPT ![c] =
                                   [call EXCEPT !.pc = "sleep", !.invoked = invoked,
                                                !.audit = LastAudit(call, "failed"),
                                                !.waits = Append(@, Backoff(call.retry_count))]]
                  ELSE runs' = [runs EXCEPT ![c] =
                                   [call EXCEPT !.pc = "done", !.invoked = invoked,
                                                !.audit = LastAudit(call, "failed"),
                                                !.status = "error"]]
    /\ UNCHANGED <<rules, samples>>
    /\ UNCHANGED wvars

\* the sleep is over: the call of itself with retry_count + 1, its audit row
Retry(c) ==
    /\ runs[c].pc = "sleep"
    /\ runs' = [runs EXCEPT ![c].pc = "try", ![c].retry_count = @ + 1,
                            ![c].audit = Append(@, "pending")]
    /\ UNCHANGED <<rules, samples, report>>
    /\ UNCHANGED wvars

InitSend ==
    /\ InitWorkflowIdle
    /\ rules = << >>
    /\ samples = << >>
    /\ runs = [c \in 1..MaxCalls |-> NoCall]
    /\ report = Configuration("active")

NextSend ==
    \/ \E c \in 1..MaxCalls, integration_type \in IntegrationTypes :
          Send(c, integration_type)
    \/ \E c \in 1..MaxCalls, outcome \in {"success", "raise"} : Attempt(c, outcome)
    \/ \E c \in 1..MaxCalls : Retry(c)

\* the event loop resumes the call when its sleep is over, and the awaited
\* request returns or raises within its timeout: a call that can go on does
SpecSend == InitSend /\ [][NextSend]_vars /\ WF_vars(NextSend)

Calls == {c \in DOMAIN runs : runs[c] # NoCall}

\* the waits so far are 1, 2, 4, ...: one before each call but the first
ExponentialWaits(call) ==
    /\ Len(call.waits) = call.retry_count + (IF call.pc = "sleep" THEN 1 ELSE 0)
    /\ \A k \in 1..Len(call.waits) : call.waits[k] = 2 ^ (k - 1)

\* every attempt before the last one failed, and the result is that of the last
Concluded(call) ==
    /\ \A k \in 1..(Len(call.audit) - 1) : call.audit[k] = "failed"
    /\ call.pc = "done" =>
          \/ /\ call.status = "success"
             /\ call.audit[Len(call.audit)] = "success"
          \/ /\ call.status = "error"
             /\ call.audit[Len(call.audit)] = "failed"
             /\ call.retry_count = MaxRetries

\* the integration method is invoked at most n times in one top-level call, the
\* waits between the attempts grow exponentially, the call ends with 'error'
\* after the last failed attempt and with 'success' at the first attempt that
\* succeeds
RetriesWithin(n) ==
    \A c \in Calls : /\ runs[c].invoked <= n
                     /\ ExponentialWaits(runs[c])
                     /\ Concluded(runs[c])

\* C26 as stated, in what it says of every state of a call: one top-level call
\* invokes the integration method at most 3 times, with exponentially growing
\* waits, then returns 'error'; a successful attempt ends the retries with
\* 'success'.
C26_AtMostThreeAttempts == RetriesWithin(3)

\* C26 as the code has it: at most 4 invocations, the first attempt and up to
\* 3 retries after waits of 1, 2 and 4 seconds, and every call ends.
C26_AtMostThreeRetries ==
    /\ []RetriesWithin(MaxRetries + 1)
    /\ \A c \in 1..MaxCalls : (runs[c] # NoCall) ~> (runs[c].pc = "done")

\* a call on a persistently failing integration ended: 4 invocations, waits of
\* 1, 2 and 4 seconds, status 'error'
C26_Witness ==
    \E c \in Calls :
        /\ runs[c].pc = "done"
        /\ runs[c].status = "error"
        /\ runs[c].invoked = 4
        /\ runs[c].waits = << 1, 2, 4 >>

(***************************************************************************)
(* Milestone-triggered learning.                                           *)
(***************************************************************************)
\* the suggestions of the analysis that auto_pattern_analysis runs which meet
\* its threshold and have no rule yet
Learnable(documents) ==
    LET doc_count == Len(samples)
        analysis == analyze_with(documents, DocumentType, smart_min_samples(doc_count))
    IN {i \in 1..Len(analysis.suggested_rules) :
           /\ AtLeast(analysis.suggested_rules[i].confidence, smart_threshold(doc_count))
           /\ ~existing_rule(rules, analysis.suggested_rules[i])}

\* the run of auto_create started by worker w has the rule to create
Creating(w, documents, i) ==
    /\ runs'[w] # Idle
    /\ \E k \in 1..Len(runs'[w].todo) :
          Key(runs'[w].todo[k]) =
             Key(analyze_with(documents, DocumentType,
                              smart_min_samples(Len(samples))).suggested_rules[i])

\* C27: when auto_pattern_analysis runs after a document became processed, a
\* trigger holds (no active rule of the type, or 3, 5, 10, 20, 50 or a multiple
\* of 25 processed documents) and the analysis succeeds with a suggestion that
\* meets the threshold and has no rule, it goes on to auto_create, which has
\* that rule to create.
C27_MilestoneLearning ==
    [][\A w \in DOMAIN runs :
          /\ auto_pattern_analysis(w)
          /\ should_analyze(Len(samples), count_existing_rules(rules, DocumentType))
          => \A documents \in get_documents(samples) :
                \A i \in Learnable(documents) : Creating(w, documents, i)]_vars

(***************************************************************************)
(* The execution and the approvals an approval response touches.           *)
(***************************************************************************)
\* C28: handle_approval_response changes only the execution that created the
\* approval: every other execution, of the approval's document too, keeps its
\* status and its current_step.
C28_OnlyOwnerChanges ==
    [][\A req \in inflight :
          Responds(req, req.action)
          => \A e \in Execs :
                e # Owner(req.approval)
                => /\ execs'[e].status = execs[e].status
                   /\ execs'[e].current_step = execs[e].current_step]_vars

\* a pending approval of the document of `approval` on the same step and level
PendingOfDocument(approval) ==
    \E i \in Approvals :
        /\ approvals[i].document = approval.document
        /\ approvals[i].workflow = approval.workflow
        /\ approvals[i].workflow_step = approval.workflow_step
        /\ approvals[i].approval_level = approval.approval_level
        /\ approvals[i].status = "pending"

\* C29: approval routing is per document: an 'approved' response waits for
\* other approvers only when an approval of the same document is pending on
\* the step, and a response on one document changes no execution of another.
C29_RoutingPerDocument ==
    [][\A req \in inflight :
          Responds(req, req.action)
          => /\ (req.action = "approved" /\ last'.result = "waiting")
                   => PendingOfDocument(approvals[req.approval])
             /\ \A e \in Execs :
                   execs[e].document # approvals[req.approval].document
                   => execs'[e] = execs[e]]_vars

(***************************************************************************)
(* The per-field report.                                                   *)
(***************************************************************************)
\* the active rules of the validated document's type on the field
RulesOn(field_name) ==
    {i \in ActiveRules(report.document_type) : rules[i].field_name = field_name}

\* every error of the result is among those of the field's entry
Visible(result, entry) ==
    \A k \in 1..Len(result.errors) :
        \E m \in 1..Len(entry.errors) : entry.errors[m] = result.errors[k]

\* C30: in the report of a validation, the entry of a field has passed = true
\* only if every active rule on the field passed, and the errors of every
\* failed rule on the field are in the entry: a failed rule is not masked by a
\* rule on the same field that is evaluated later and passes.
C30_FieldReportConsistent ==
    Validated
    => \A field_name \in DOMAIN report.field_validations :
          \A i \in RulesOn(field_name) :
              LET result == _apply_validation_rule(extracted_data, rules[i])
                  entry == report.field_validations[field_name]
              IN /\ entry.passed => result.passed
                 /\ ~result.passed => Visible(result, entry)

====
